---- MODULE Spec2Model ----
(***************************************************************************)
(* A model of kindle-sender: the domain override registry                  *)
(* (domain_handlers.py), the content extractor (article_downloader.py),    *)
(* the extraction orchestrator (article_manager.py) and the two entry      *)
(* paths of kindle_sender.py (command-line mode and interactive mode).     *)
(*                                                                         *)
(* Python strings are modelled as sequences of atoms.  An atom is a chunk  *)
(* of characters that the code never looks inside ("substack", "A") or a   *)
(* single character the code does look for (".", "\n", " ").  Prefix,      *)
(* suffix, containment, split and replace are computed on the sequences.   *)
(***************************************************************************)
EXTENDS Integers, Sequences, FiniteSets, TLC

VARIABLES
    registry,   \* DomainHandlerRegistry._handlers, in insertion order
    handler,    \* the value returned by the last get_handler call
    lookup,     \* the last get_handler call: its URL and the registry it read
    mode,       \* which entry path main() took
    pc,         \* position of the program
    args,       \* the parsed command line
    current,    \* InteractiveMode.current_url/file/title/content/author
    inp,        \* the arguments and environment of the extraction call
    out,        \* the outcome of the core extraction call
    handed,     \* what the orchestrating call gave to its caller
    fetched,    \* URLs for which an HTML fetch was attempted in this run
    attempts    \* number of source selections made in interactive mode

vars == <<registry, handler, lookup, mode, pc, args, current, inp, out,
          handed, fetched, attempts>>

----------------------------------------------------------------------------
(* Bounds of the model *)

\* largest number of elements of an input document
MaxNodes == 3
\* largest number of handlers registered after the two built-in ones
MaxCustom == 1
\* largest number of source selections followed in one interactive session
MaxAttempts == 2
\* largest number of characters of a text given to the sanitizer
MaxText == 3
\* largest number of pieces (lines of text, newlines, the marker, the
\* subscription paragraph) of a body given to the Cenital post-processing
MaxBody == 6

----------------------------------------------------------------------------
(* Strings as sequences of atoms *)

\* Python's None where a string is expected
None == <<"<None>">>

Whitespace == {" ", "\n"}

StartsWith(s, p) == Len(s) >= Len(p) /\ SubSeq(s, 1, Len(p)) = p

EndsWith(s, p) == Len(s) >= Len(p) /\ SubSeq(s, Len(s) - Len(p) + 1, Len(s)) = p

\* str.strip(): leading and trailing whitespace removed
RECURSIVE LStrip(_)
LStrip(s) == IF s # <<>> /\ Head(s) \in Whitespace THEN LStrip(Tail(s)) ELSE s

RECURSIVE RStrip(_)
RStrip(s) ==
    IF s # <<>> /\ s[Len(s)] \in Whitespace THEN RStrip(SubSeq(s, 1, Len(s) - 1)) ELSE s

Strip(s) == RStrip(LStrip(s))

\* position of the first occurrence of atom a in s, 0 when absent
RECURSIVE IndexOf(_, _)
IndexOf(s, a) ==
    IF s = <<>> THEN 0
    ELSE IF Head(s) = a THEN 1
    ELSE LET r == IndexOf(Tail(s), a) IN IF r = 0 THEN 0 ELSE r + 1

\* str.replace(a, ""): every occurrence of atom a removed
RECURSIVE Remove(_, _)
Remove(s, a) ==
    IF s = <<>> THEN <<>>
    ELSE IF Head(s) = a THEN Remove(Tail(s), a)
    ELSE <<Head(s)>> \o Remove(Tail(s), a)

Atoms(s) == {s[i] : i \in 1..Len(s)}

----------------------------------------------------------------------------
(* URLs and paths *)

Dot == "."
Slash == "/"

\* urlparse(url).netloc: what follows "scheme://" up to the next "/"
RECURSIVE UpToSlash(_)
UpToSlash(s) ==
    IF s = <<>> \/ Head(s) = Slash THEN <<>> ELSE <<Head(s)>> \o UpToSlash(Tail(s))

Netloc(url) ==
    LET rest == IF url # <<>> /\ Head(url) = "https:" THEN Tail(url) ELSE url
    IN  IF rest # <<>> /\ Head(rest) = "//" THEN UpToSlash(Tail(rest)) ELSE <<>>

\* os.path.basename(path): what follows the last separator
RECURSIVE Basename(_)
Basename(path) ==
    IF \E i \in 1..Len(path) : path[i] \in {Slash, "//"}
    THEN Basename(Tail(path))
    ELSE path

SubstackCom == <<"substack", Dot, "com">>
CenitalCom == <<"cenital", Dot, "com">>
ExampleCom == <<"example", Dot, "com">>

HttpsUrl(host, path) == <<"https:", "//">> \o host \o path

ArticlePath == <<Slash, "p", Slash, "x">>

----------------------------------------------------------------------------
(* domain_handlers.py *)

SubstackMessage == "Substack articles require JavaScript to render content and cannot be extracted automatically."

SubstackHandler == [domain |-> SubstackCom, kind |-> "substack"]
CenitalHandler == [domain |-> CenitalCom, kind |-> "cenital"]
\* a handler that keeps the defaults of DomainHandler
PlainHandler(d) == [domain |-> d, kind |-> "plain"]
\* get_handler's None
NoHandler == [domain |-> <<>>, kind |-> "none"]

\* DomainHandlerRegistry.register: a dict assignment keeps the position of an
\* existing key and appends a new one
Register(reg, h) ==
    IF \E i \in 1..Len(reg) : reg[i].domain = h.domain
    THEN [i \in 1..Len(reg) |-> IF reg[i].domain = h.domain THEN h ELSE reg[i]]
    ELSE Append(reg, h)

\* DomainHandlerRegistry.__init__
BuiltinRegistry == Register(Register(<<>>, SubstackHandler), CenitalHandler)

StripWww(domain) ==
    IF StartsWith(domain, <<"www", Dot>>) THEN SubSeq(domain, 3, Len(domain)) ELSE domain

\* a plausible slip: the suffix test without the separating dot
IsSubdomainNoDot(domain, handler_domain) == EndsWith(domain, handler_domain)

\* domain.endswith(f".{handler_domain}")
IsSubdomain(domain, handler_domain) == EndsWith(domain, <<Dot>> \o handler_domain)

GetHandler(reg, url) ==
    IF url = <<>> THEN NoHandler
    ELSE LET domain == StripWww(Netloc(url))
             exact == {i \in 1..Len(reg) : reg[i].domain = domain}
             sub == {i \in 1..Len(reg) : IsSubdomain(domain, reg[i].domain)}
         IN  IF exact # {} THEN reg[CHOOSE i \in exact : TRUE]
             ELSE IF sub # {} THEN reg[CHOOSE i \in sub : \A j \in sub : i <= j]
             ELSE NoHandler

\* DomainHandler.pre_validation and SubstackHandler.pre_validation
PreValidation(h) ==
    IF h.kind = "substack"
    THEN [allowed |-> FALSE, message |-> SubstackMessage]
    ELSE [allowed |-> TRUE, message |-> "None"]

RunPreValidation(reg, url) ==
    LET h == GetHandler(reg, url)
    IN  IF h # NoHandler THEN PreValidation(h) ELSE [allowed |-> TRUE, message |-> "None"]

OtrasLecturas == "Otras lecturas"
SubscriptionText == "Por que pagar por algo que puedo leer gratis? ... Sumate"

\* re.sub(r'\n{3,}', '\n\n', content)
RECURSIVE CollapseNewlines(_, _)
CollapseNewlines(s, run) ==
    IF s = <<>> THEN <<>>
    ELSE IF Head(s) = "\n"
         THEN IF run >= 2 THEN CollapseNewlines(Tail(s), run + 1)
              ELSE <<"\n">> \o CollapseNewlines(Tail(s), run + 1)
         ELSE <<Head(s)>> \o CollapseNewlines(Tail(s), 0)

\* CenitalHandler.post_processing
CenitalPostProcessing(title, content) ==
    LET cut == IF IndexOf(content, OtrasLecturas) # 0
               THEN Strip(SubSeq(content, 1, IndexOf(content, OtrasLecturas) - 1))
               ELSE content
        done == IF IndexOf(cut, SubscriptionText) # 0
                THEN CollapseNewlines(Strip(Remove(cut, SubscriptionText)), 0)
                ELSE cut
    IN  [title |-> title, content |-> done]

\* DomainHandler.post_processing and its overrides
PostProcessing(h, title, content) ==
    IF h.kind = "cenital" THEN CenitalPostProcessing(title, content)
    ELSE [title |-> title, content |-> content]

RunPostProcessing(reg, url, title, content) ==
    LET h == GetHandler(reg, url)
    IN  IF h # NoHandler THEN PostProcessing(h, title, content)
        ELSE [title |-> title, content |-> content]

----------------------------------------------------------------------------
(* Parsed documents (BeautifulSoup trees) *)

(* A document is the sequence of its elements in document order.  Each     *)
(* element has a tag, one class, one further attribute, the content        *)
(* attribute of a <meta>, the text that precedes its child elements, and   *)
(* the position of its parent (0 for a top-level element).                 *)

K(tag, cls, text) == [tag |-> tag, cls |-> cls, attr |-> "", content |-> <<>>, text |-> text]

Meta(attr, content) ==
    [tag |-> "meta", cls |-> "", attr |-> attr, content |-> content, text |-> <<>>]

\* elements whose content the parser never reads as child elements
RawTextTags == {"script", "style", "title", "meta"}

TitleKinds ==
    { K("body", "", <<>>), K("title", "", <<"Page">>), K("title", "", <<" ">>),
      K("h1", "", <<" ", "Head", " ">>), K("h1", "", <<>>), K("p", "", <<"A">>) }

ContainerKinds ==
    { K("body", "", <<>>), K("article", "", <<>>), K("main", "", <<>>),
      K("div", "content", <<>>), K("p", "", <<"A">>), K("h2", "", <<"B">>) }

ClassKinds ==
    { K("div", "content", <<>>), K("div", "article-content", <<>>),
      K("div", "post-content", <<>>), K("p", "", <<"A">>), K("h2", "", <<"B">>),
      K("h4", "", <<"D">>) }

StripKinds ==
    { K("body", "", <<>>), K("script", "", <<"S">>), K("aside", "", <<"Z">>),
      K("header", "", <<"H">>), K("p", "", <<"A">>), K("article", "", <<>>) }

ChromeKinds ==
    { K("body", "", <<>>), K("style", "", <<"Y">>), K("nav", "", <<"N">>),
      K("footer", "", <<"F">>), K("form", "", <<"M">>), K("h3", "", <<"C">>) }

FallbackKinds ==
    { K("body", "", <<>>), K("div", "", <<"Raw">>), K("p", "", <<" ">>),
      K("p", "", <<OtrasLecturas>>), K("article", "", <<>>), K("h1", "", <<"Head">>) }

AuthorKinds ==
    { K("body", "", <<>>), K("span", "author", <<"By", " ", "Jane Doe">>),
      K("header", "byline", <<"Ann">>), Meta("name=author", <<"Jane Doe">>),
      K("p", "", <<"A">>), K("h1", "", <<"Head">>) }

Families ==
    {TitleKinds, ContainerKinds, ClassKinds, StripKinds, ChromeKinds, FallbackKinds,
     AuthorKinds}

\* is element a the element i or one of its ancestors
RECURSIVE Anc(_, _, _)
Anc(doc, i, a) ==
    i = a \/ (doc[i].parent # 0 /\ Anc(doc, doc[i].parent, a))

\* where the next element of a document in document order may be attached
Attach(doc) ==
    {0} \cup {a \in 1..Len(doc) : Anc(doc, Len(doc), a) /\ doc[a].tag \notin RawTextTags}

Elem(k, q) ==
    [tag |-> k.tag, cls |-> k.cls, attr |-> k.attr, content |-> k.content,
     text |-> k.text, parent |-> q]

\* every document of at most n elements drawn from one family of elements
RECURSIVE DocsOf(_, _)
DocsOf(kinds, n) ==
    IF n = 0 THEN {<<>>}
    ELSE LET shorter == DocsOf(kinds, n - 1)
         IN  shorter \cup
             { Append(t[1], Elem(t[2], t[3])) :
                 t \in { u \in shorter \X kinds \X (0..(n - 1)) :
                           Len(u[1]) = n - 1 /\ u[3] \in Attach(u[1]) } }

All(doc) == 1..Len(doc)

\* the first element in document order of a set of elements, 0 when empty
First(S) == IF S = {} THEN 0 ELSE CHOOSE i \in S : \A j \in S : i <= j

\* soup.find(tag)
Find(doc, live, tag) == First({i \in live : doc[i].tag = tag})

\* element.get_text(strip=True): the stripped non-empty strings of the
\* element and its descendants, in document order, joined by ""
RECURSIVE TextFrom(_, _, _, _)
TextFrom(doc, live, a, i) ==
    IF i > Len(doc) THEN <<>>
    ELSE (IF i \in live /\ Anc(doc, i, a) THEN Strip(doc[i].text) ELSE <<>>)
         \o TextFrom(doc, live, a, i + 1)

GetText(doc, live, a) == TextFrom(doc, live, a, a)

----------------------------------------------------------------------------
(* article_downloader.py: extract_author_from_soup *)

NoAuthor == <<>>

\* the class-name fragments of the [class*="..."] selectors a class contains
Fragments(cls) ==
    CASE cls = "author-name" -> {"author-name", "author"}
      [] cls = "author" -> {"author"}
      [] cls = "byline" -> {"byline"}
      [] cls = "post-author" -> {"post-author", "author"}
      [] OTHER -> {}

\* author_patterns, in order
AuthorPatterns ==
    << [by |-> "class*", val |-> "author-name"], [by |-> "class*", val |-> "author"],
       [by |-> "class*", val |-> "autor"], [by |-> "class*", val |-> "byline"],
       [by |-> "class*", val |-> "writer"], [by |-> "class*", val |-> "journalist"],
       [by |-> "class*", val |-> "by-author"], [by |-> "class*", val |-> "post-author"],
       [by |-> "class*", val |-> "article-author"],
       [by |-> "class*", val |-> "entry-author"],
       [by |-> "attr", val |-> "rel=author"], [by |-> "attr", val |-> "itemprop=author"],
       [by |-> "attr", val |-> "data-author"], [by |-> "attr", val |-> "itemtype*=Person"],
       [by |-> "tag", val |-> "address"], [by |-> "class", val |-> "byline"],
       [by |-> "class", val |-> "author"], [by |-> "class", val |-> "writer"] >>

\* a plausible slip: the first two meta patterns in the other order
MetaPatternsReordered ==
    <<"property=article:author", "name=author", "name=dc.creator", "name=twitter:creator">>

\* meta_patterns, in order
MetaPatterns ==
    <<"name=author", "property=article:author", "name=dc.creator", "name=twitter:creator">>

Matches(node, pat) ==
    CASE pat.by = "class*" -> pat.val \in Fragments(node.cls)
      [] pat.by = "attr" -> node.attr = pat.val
      [] pat.by = "tag" -> node.tag = pat.val
      [] OTHER -> node.cls = pat.val

\* number of characters of an atom
AtomLen(a) ==
    CASE a = "Jane Doe" -> 8
      [] a = "Ann" -> 3
      [] a = "By" -> 2
      [] a = "Head" -> 4
      [] a = "Page" -> 4
      [] a = "Raw" -> 3
      [] a = "Site Admin" -> 10
      [] a = "ron Smith" -> 9
      [] a = "Desk" -> 4
      [] a = "ann" -> 3
      [] a = "Lukasz(U+0141)" -> 6
      [] a = "Long name" -> 101
      [] OTHER -> 1

RECURSIVE CharLen(_)
CharLen(s) == IF s = <<>> THEN 0 ELSE AtomLen(Head(s)) + CharLen(Tail(s))

\* the labels of the prefix pattern (by|por|autor|author|written by|escrito por)
LabelAtoms == {"By", "Por", "Autor", "Author", "Written by", "Escrito por"}

\* re.sub(r'^(by|...)\s*:?\s*', '', text, flags=re.IGNORECASE)
CleanPrefix(text) ==
    IF text # <<>> /\ Head(text) \in LabelAtoms
    THEN LET a == LStrip(Tail(text))
             b == IF a # <<>> /\ Head(a) = ":" THEN Tail(a) ELSE a
         IN  LStrip(b)
    ELSE text

\* re.sub(r'\s*[@#]\w+.*$', '', text) then re.sub(r'\s*\|\s*.*$', '', text)
CutAt(text, marks) ==
    LET hits == {i \in 1..Len(text) : text[i] \in marks}
    IN  IF hits = {} THEN text ELSE RStrip(SubSeq(text, 1, First(hits) - 1))

CleanSuffix(text) ==
    LET handles == {i \in 1..Len(text) :
                      text[i] \in {"@", "#"} /\ i < Len(text) /\ text[i + 1] \notin Whitespace}
        a == IF handles = {} THEN text ELSE RStrip(SubSeq(text, 1, First(handles) - 1))
    IN  CutAt(a, {"|"})

\* atoms made of letters (and inner spaces) only
\* the class À-ÿ is U+00C0..U+00FF: it holds the signs U+00D7 and U+00F7 and
\* ends before the letters from U+0100 on
NameAtoms ==
    {"Jane Doe", "Ann", "A", "B", "C", "D", "Head", "Page", "Raw", "By", "Site Admin",
     "ron Smith", "Desk", "ann", "X", "Long name", "U+00D7"}

\* number of whitespace-separated words of an atom
AtomWords(a) ==
    IF a \in {"Jane Doe", "Site Admin", "ron Smith", "Long name"} THEN 2
    ELSE IF a \in Whitespace THEN 0 ELSE 1

RECURSIVE WordCount(_)
WordCount(s) == IF s = <<>> THEN 0 ELSE AtomWords(Head(s)) + WordCount(Tail(s))

\* re.match(r'^[a-zA-ZÀ-ÿ\s\.\-\']+$', text) and len(text.split()) <= 6
LooksLikeName(text) ==
    /\ text # <<>>
    /\ \A i \in 1..Len(text) : text[i] \in NameAtoms \cup Whitespace \cup {".", "-", "'"}
    /\ WordCount(text) <= 6

\* the cleaned text of one candidate element, <<>> when it is not acceptable
Candidate(doc, i) ==
    LET text == GetText(doc, All(doc), i)
    IN  IF text # <<>> /\ 2 <= CharLen(text) /\ CharLen(text) <= 100
        THEN LET cleaned == Strip(CleanSuffix(CleanPrefix(text)))
             IN  IF LooksLikeName(cleaned) THEN cleaned ELSE <<>>
        ELSE <<>>

RECURSIVE SelectorAuthor(_, _)
SelectorAuthor(doc, k) ==
    IF k > Len(AuthorPatterns) THEN NoAuthor
    ELSE LET good == {i \in All(doc) :
                        Matches(doc[i], AuthorPatterns[k]) /\ Candidate(doc, i) # <<>>}
         IN  IF good # {} THEN Candidate(doc, First(good))
             ELSE SelectorAuthor(doc, k + 1)

RECURSIVE MetaAuthor(_, _)
MetaAuthor(doc, k) ==
    IF k > Len(MetaPatterns) THEN NoAuthor
    ELSE LET tag == First({i \in All(doc) :
                             doc[i].tag = "meta" /\ doc[i].attr = MetaPatterns[k]})
             content == IF tag = 0 THEN <<>> ELSE Strip(doc[tag].content)
             handle == IF content # <<>> /\ Head(content) = "@" THEN Tail(content)
                       ELSE content
         IN  IF handle # <<>> /\ 2 <= CharLen(handle) /\ CharLen(handle) <= 100
             THEN handle
             ELSE MetaAuthor(doc, k + 1)

ExtractAuthorFromSoup(doc) ==
    LET a == SelectorAuthor(doc, 1)
    IN  IF a # NoAuthor THEN a ELSE MetaAuthor(doc, 1)

----------------------------------------------------------------------------
(* article_downloader.py: the structural extraction shared by              *)
(* extract_article (fallback tier) and extract_from_file                   *)

NonContentTags == {"script", "style", "nav", "footer", "header", "aside", "form"}

\* a plausible slip: one tag missing from the list of non-content tags
DecomposedButAside(doc) ==
    {i \in All(doc) :
       \E a \in All(doc) : doc[a].tag \in NonContentTags \ {"aside"} /\ Anc(doc, i, a)}

\* for element in soup([...]): element.decompose()
\* the elements removed from the tree, with everything inside them
Decomposed(doc) ==
    {i \in All(doc) : \E a \in All(doc) : doc[a].tag \in NonContentTags /\ Anc(doc, i, a)}

Live(doc) == All(doc) \ Decomposed(doc)

\* the selectors tried for the main content, in order
ContainerSelectors ==
    << [by |-> "tag", val |-> "article"], [by |-> "tag", val |-> "main"],
       [by |-> "class", val |-> "content"], [by |-> "class", val |-> "article-content"],
       [by |-> "class", val |-> "post-content"] >>

\* soup.select_one(selector)
SelectOne(doc, live, sel) == First({i \in live : Matches(doc[i], sel)})

\* a plausible slip: the first container in document order, whatever its selector
MainContentByPosition(doc, live) ==
    LET any == First({i \in live :
                        \E k \in 1..Len(ContainerSelectors) :
                            Matches(doc[i], ContainerSelectors[k])})
    IN  IF any # 0 THEN any ELSE Find(doc, live, "body")

RECURSIVE SelectContainer(_, _, _)
SelectContainer(doc, live, k) ==
    IF k > Len(ContainerSelectors) THEN 0
    ELSE LET m == SelectOne(doc, live, ContainerSelectors[k])
         IN  IF m # 0 THEN m ELSE SelectContainer(doc, live, k + 1)

\* main_content: the first selector that matches, else soup.body; 0 is None
MainContent(doc, live) ==
    LET m == SelectContainer(doc, live, 1)
    IN  IF m # 0 THEN m ELSE Find(doc, live, "body")

ContentTags == {"p", "h2", "h3", "h4"}

\* [el.get_text(strip=True) for el in main_content.find_all([...]) if el.get_text(strip=True)]
RECURSIVE Blocks(_, _, _, _)
Blocks(doc, live, c, i) ==
    IF i > Len(doc) THEN <<>>
    ELSE (IF /\ i \in live /\ i # c /\ Anc(doc, i, c)
             /\ doc[i].tag \in ContentTags
             /\ GetText(doc, live, i) # <<>>
          THEN <<GetText(doc, live, i)>> ELSE <<>>)
         \o Blocks(doc, live, c, i + 1)

\* "\n\n".join(blocks)
RECURSIVE Join(_)
Join(blocks) ==
    IF blocks = <<>> THEN <<>>
    ELSE IF Len(blocks) = 1 THEN blocks[1]
    ELSE blocks[1] \o <<"\n", "\n">> \o Join(Tail(blocks))

\* content after the join of the paragraphs and headings of main_content
JoinedContent(doc, live, c) == Join(Blocks(doc, live, c, 1))

----------------------------------------------------------------------------
(* article_downloader.py: extract_article and extract_from_file *)

\* a plausible slip: the exception of the failing step leaves the function as
\* it is, without the "except Exception ... raise ValueError" around it
FailedUnwrapped(events, tier, c, joined) ==
    [status |-> "error", exc |-> "Exception", title |-> <<>>, body |-> <<>>,
     author |-> NoAuthor, events |-> events, tier |-> tier, container |-> c,
     joined |-> joined, lastResort |-> FALSE]

\* the failure of a call: every step of the two functions stands in a try
\* whose handler raises ValueError
Failed(events, tier, c, joined) ==
    [status |-> "error", exc |-> "ValueError", title |-> <<>>, body |-> <<>>,
     author |-> NoAuthor, events |-> events, tier |-> tier, container |-> c,
     joined |-> joined, lastResort |-> FALSE]

Returned(title, body, author, events, tier, c, joined, lastResort) ==
    [status |-> "ok", exc |-> "", title |-> title, body |-> body, author |-> author,
     events |-> events, tier |-> tier, container |-> c, joined |-> joined,
     lastResort |-> lastResort]

\* the page a server sends with a non-success status
ErrorPage ==
    << [tag |-> "body", cls |-> "", attr |-> "", content |-> <<>>, text |-> <<>>,
        parent |-> 0],
       [tag |-> "address", cls |-> "", attr |-> "", content |-> <<>>,
        text |-> <<"Site Admin">>, parent |-> 1] >>

\* response.text of the author re-fetch of tier 1: requests.get without
\* raise_for_status, so the text of an error response is parsed like any other
RefetchedPage(doc, env) == IF env.r1http THEN ErrorPage ELSE doc

\* the fallback tier of extract_article
FallbackTier(reg, url, doc, env, events) ==
    LET ev == Append(events, "requests.get:fallback")
    IN  IF env.r2 # "ok" THEN Failed(ev, 2, 0, <<>>)
        ELSE LET h1 == Find(doc, All(doc), "h1")
                 title == IF h1 # 0 THEN GetText(doc, All(doc), h1) ELSE Netloc(url)
                 author == ExtractAuthorFromSoup(doc)
                 live == Live(doc)
                 c == MainContent(doc, live)
             IN  IF c = 0 THEN Failed(ev, 2, 0, <<>>)
                 ELSE LET content == JoinedContent(doc, live, c)
                      IN  IF title = <<>> \/ content = <<>>
                          THEN Failed(ev, 2, c, content)
                          ELSE LET pp == RunPostProcessing(reg, url, title, content)
                               IN  Returned(pp.title, pp.content, author, ev, 2, c,
                                            content, FALSE)

\* a plausible slip: a failure of the rich extractor ends the call
ExtractArticleAborting(reg, url, doc, env) ==
    IF env.newspaper /\ env.t1.raises THEN Failed(<<"article.download">>, 1, 0, <<>>)
    ELSE FallbackTier(reg, url, doc, env, <<>>)

\* extract_article(url)
ExtractArticle(reg, url, doc, env) ==
    IF ~env.newspaper THEN FallbackTier(reg, url, doc, env, <<>>)
    ELSE LET ev1 == <<"article.download">>
         IN  IF env.t1.raises THEN FallbackTier(reg, url, doc, env, ev1)
             ELSE LET first == IF env.t1.authors # <<>> THEN env.t1.authors[1] ELSE NoAuthor
                      ev2 == IF first = NoAuthor THEN Append(ev1, "requests.get:author")
                             ELSE ev1
                  IN  IF first = NoAuthor /\ ~env.r1ok
                      THEN FallbackTier(reg, url, doc, env, ev2)
                      ELSE LET author == IF first = NoAuthor
                                         THEN ExtractAuthorFromSoup(RefetchedPage(doc, env))
                                         ELSE first
                           IN  IF env.t1.title # <<>> /\ env.t1.text # <<>>
                               THEN LET pp == RunPostProcessing(reg, url, env.t1.title,
                                                                env.t1.text)
                                    IN  Returned(pp.title, pp.content, author, ev2, 1, 0,
                                                 <<>>, FALSE)
                               ELSE FallbackTier(reg, url, doc, env, ev2)

HtmlExt == ".html"

\* extract_from_file(file_path); env.readable is whether open() and read() succeed
ExtractFromFile(reg, path, doc, env) ==
    IF ~env.readable THEN Failed(<<>>, 2, 0, <<>>)
    ELSE LET t == Find(doc, All(doc), "title")
             h1 == Find(doc, All(doc), "h1")
             found == IF t # 0 THEN GetText(doc, All(doc), t)
                      ELSE IF h1 # 0 THEN GetText(doc, All(doc), h1)
                      ELSE <<>>
             title == IF found = <<>> THEN Remove(Basename(path), HtmlExt) ELSE found
             author == ExtractAuthorFromSoup(doc)
             live == Live(doc)
             c == MainContent(doc, live)
             body == Find(doc, live, "body")
         IN  IF c = 0 THEN Failed(<<>>, 2, 0, <<>>)
             ELSE LET joined == JoinedContent(doc, live, c)
                  IN  IF joined = <<>> /\ body = 0 THEN Failed(<<>>, 2, c, joined)
                      ELSE LET content == IF joined = <<>> THEN GetText(doc, live, body)
                                          ELSE joined
                           IN  IF content = <<>> THEN Failed(<<>>, 2, c, joined)
                               ELSE LET pp == RunPostProcessing(reg, path, title, content)
                                    IN  Returned(pp.title, pp.content, author, <<>>, 2, c,
                                                 joined, joined = <<>>)

----------------------------------------------------------------------------
(* article_manager.py: the extraction orchestrator *)

NotHanded == [status |-> "none", title |-> <<>>, body |-> <<>>, author |-> NoAuthor]
Raised == [status |-> "error", title |-> <<>>, body |-> <<>>, author |-> NoAuthor]
NoOutcome ==
    [status |-> "none", exc |-> "", title |-> <<>>, body |-> <<>>, author |-> NoAuthor,
     events |-> <<>>, tier |-> 0, container |-> 0, joined |-> <<>>, lastResort |-> FALSE]

\* a tuple assignment "a, b = values": it raises unless the lengths agree
Unpack(values, n) ==
    IF Len(values) = n THEN [ok |-> TRUE, vals |-> values] ELSE [ok |-> FALSE, vals |-> <<>>]

\* the body of ArticleManager.extract_from_url / extract_from_file_path after
\* the source's extract() returned (result, reference):
\* "(title, content), _ = ..." and then "return title, content"
ManagerReturn(o) ==
    IF o.status # "ok" THEN [ok |-> FALSE, vals |-> <<>>]
    ELSE LET inner == Unpack(<<o.title, o.body, o.author>>, 2)
         IN  IF inner.ok THEN [ok |-> TRUE, vals |-> <<inner.vals[1], inner.vals[2]>>]
             ELSE inner

\* the caller's "title, content, author = article_manager.extract_from_...(...)"
HandedTo(o) ==
    LET r == ManagerReturn(o)
        u == IF r.ok THEN Unpack(r.vals, 3) ELSE r
    IN  IF u.ok
        THEN [status |-> "ok", title |-> u.vals[1], body |-> u.vals[2], author |-> u.vals[3]]
        ELSE Raised

\* URLSource.extract: the core call is made only for a non-empty URL
UrlOutcome(reg, url, doc, env) ==
    IF url = <<>> THEN NoOutcome ELSE ExtractArticle(reg, url, doc, env)

\* HTMLFileSource.extract
FileOutcome(reg, path, doc, env) ==
    IF path = <<>> THEN NoOutcome ELSE ExtractFromFile(reg, path, doc, env)

----------------------------------------------------------------------------
(* The inputs of the model *)

SubstackUrl == HttpsUrl(SubstackCom, ArticlePath)
SubSubstackUrl == HttpsUrl(<<"sub", Dot>> \o SubstackCom, ArticlePath)
WwwSubstackUrl == HttpsUrl(<<"www", Dot>> \o SubstackCom, <<>>)
NotSubstackUrl == HttpsUrl(<<"not", "substack", Dot, "com">>, ArticlePath)
CenitalUrl == HttpsUrl(CenitalCom, ArticlePath)
ExampleUrl == HttpsUrl(ExampleCom, <<>>)
\* a URL typed without its scheme: urlparse gives it no network location
BareUrl == SubstackCom \o ArticlePath

Urls ==
    {SubstackUrl, SubSubstackUrl, WwwSubstackUrl, NotSubstackUrl, CenitalUrl, ExampleUrl,
     BareUrl, HttpsUrl(<<"www", Dot, "www", Dot>> \o CenitalCom, <<>>),
     HttpsUrl(<<"example", Dot, "org">>, ArticlePath), HttpsUrl(<<"com">>, <<>>),
     HttpsUrl(<<"x", Dot, "sub", Dot>> \o SubstackCom, <<>>), <<>>}

\* the domains a handler may be registered for after start-up
CustomDomains ==
    {ExampleCom, <<"com">>, <<"sub", Dot>> \o SubstackCom, SubstackCom,
     <<"www", Dot>> \o CenitalCom}

HtmlDir == <<"html_articles", Slash>>

\* the files of the HTML articles directory (they all end in ".html")
HtmlFiles == << <<"a", HtmlExt>>, <<"notes", HtmlExt, "-v2", HtmlExt>> >>

\* the file a.html of the directory /cenital.com, written with two slashes
CenitalPath == <<"//">> \o CenitalCom \o <<Slash, "a", HtmlExt>>

\* file paths given with --file
Paths ==
    {HtmlDir \o HtmlFiles[i] : i \in 1..Len(HtmlFiles)}
        \cup {<<"a", HtmlExt>>, <<"page", HtmlExt, ".bak">>, CenitalPath}

\* what the rich extractor (newspaper3k) may come back with
Tier1Outcomes ==
    {[raises |-> TRUE, title |-> <<>>, text |-> <<>>, authors |-> <<>>]}
        \cup [raises : {FALSE}, title : {<<>>, <<"T1">>},
              text : {<<>>, <<"X1">>, <<OtrasLecturas, "X1">>},
              authors : {<<>>, << <<"Ann">> >>}]

\* r1ok: the author re-fetch of tier 1 gets a response; r1http: that response
\* has a non-success status; r2: the fetch of the fallback tier
Envs ==
    {e \in [newspaper : BOOLEAN, t1 : Tier1Outcomes, r1ok : BOOLEAN, r1http : BOOLEAN,
             r2 : {"ok", "http", "conn"}, readable : {TRUE}] : e.r1http => e.r1ok}

\* no rich extractor installed, the page is served, the file can be read
PlainEnv ==
    [newspaper |-> FALSE,
     t1 |-> [raises |-> TRUE, title |-> <<>>, text |-> <<>>, authors |-> <<>>],
     r1ok |-> TRUE, r1http |-> FALSE, r2 |-> "ok", readable |-> TRUE]

Unreadable == [PlainEnv EXCEPT !.readable = FALSE]

\* a page with a heading, a byline and two paragraphs' worth of structure
GoodDoc ==
    << Elem(K("body", "", <<>>), 0), Elem(K("h1", "", <<"Head">>), 1),
       Elem(K("p", "", <<"A">>), 1) >>

\* a page whose only paragraph opens the trailing section of cenital.com
TrailerDoc ==
    << Elem(K("body", "", <<>>), 0), Elem(K("h1", "", <<"Head">>), 1),
       Elem(K("p", "", <<OtrasLecturas>>), 1) >>

\* a page with no markup at all
EmptyDoc == <<>>

SiteDocs == {GoodDoc, TrailerDoc, EmptyDoc}

Call(kind, ref, doc, env) == [kind |-> kind, ref |-> ref, doc |-> doc, env |-> env]
NoCall == Call("none", <<>>, <<>>, PlainEnv)

----------------------------------------------------------------------------
(* SpecRegistry: the registry and its lookups *)

NoLookup == [url |-> <<>>, handlers |-> <<>>]
NoArgs == [url |-> None, file |-> None, no_send |-> FALSE, debug_extraction |-> FALSE]
NoCurrent ==
    [url |-> None, file |-> None, title |-> None, content |-> None, author |-> None]

Idle ==
    /\ mode = "none" /\ args = NoArgs /\ current = NoCurrent
    /\ inp = NoCall /\ out = NoOutcome /\ handed = NotHanded
    /\ fetched = {} /\ attempts = 0

InitRegistry ==
    /\ registry = BuiltinRegistry
    /\ handler = NoHandler
    /\ lookup = NoLookup
    /\ pc = "registry"
    /\ Idle

\* register_domain_handler(handler)
RegisterDomainHandler(d) ==
    /\ pc = "registry"
    /\ Len(registry) < Len(BuiltinRegistry) + MaxCustom
    /\ registry' = Register(registry, PlainHandler(d))
    /\ UNCHANGED <<handler, lookup, mode, pc, args, current, inp, out, handed, fetched,
                   attempts>>

\* domain_registry.get_handler(url)
CallGetHandler(url) ==
    /\ pc = "registry"
    /\ handler' = GetHandler(registry, url)
    /\ lookup' = [url |-> url, handlers |-> registry]
    /\ UNCHANGED <<registry, mode, pc, args, current, inp, out, handed, fetched, attempts>>

NextRegistry ==
    \/ \E d \in CustomDomains : RegisterDomainHandler(d)
    \/ \E url \in Urls : CallGetHandler(url)

SpecRegistry == InitRegistry /\ [][NextRegistry]_vars

----------------------------------------------------------------------------
(* SpecExtract: single calls of extract_article and extract_from_file *)

InitExtract ==
    /\ registry = BuiltinRegistry
    /\ handler = NoHandler
    /\ lookup = NoLookup
    /\ pc = "call"
    /\ mode = "none" /\ args = NoArgs /\ current = NoCurrent
    /\ \/ \E kinds \in Families : \E d \in DocsOf(kinds, MaxNodes) :
              \/ inp = Call("url", ExampleUrl, d, PlainEnv)
              \/ inp = Call("file", HtmlDir \o HtmlFiles[1], d, PlainEnv)
       \/ \E d \in DocsOf(FallbackKinds, MaxNodes) :
              inp = Call("url", CenitalUrl, d, PlainEnv)
       \/ \E f \in Paths : \E d \in DocsOf(TitleKinds, MaxNodes) :
              inp = Call("file", f, d, PlainEnv)
       \/ \E d \in DocsOf(FallbackKinds, MaxNodes) :
              inp = Call("file", CenitalPath, d, PlainEnv)
       \/ \E u \in {ExampleUrl, CenitalUrl} : \E d \in SiteDocs : \E e \in Envs :
              inp = Call("url", u, d, e)
       \/ inp = Call("file", HtmlDir \o HtmlFiles[1], GoodDoc, Unreadable)
    /\ out = NoOutcome /\ handed = NotHanded
    /\ fetched = {} /\ attempts = 0

CallExtractArticle ==
    /\ pc = "call"
    /\ inp.kind = "url"
    /\ out' = ExtractArticle(registry, inp.ref, inp.doc, inp.env)
    /\ pc' = "returned"
    /\ UNCHANGED <<registry, handler, lookup, mode, args, current, inp, handed, fetched,
                   attempts>>

CallExtractFromFile ==
    /\ pc = "call"
    /\ inp.kind = "file"
    /\ out' = ExtractFromFile(registry, inp.ref, inp.doc, inp.env)
    /\ pc' = "returned"
    /\ UNCHANGED <<registry, handler, lookup, mode, args, current, inp, handed, fetched,
                   attempts>>

NextExtract == CallExtractArticle \/ CallExtractFromFile

SpecExtract == InitExtract /\ [][NextExtract]_vars

----------------------------------------------------------------------------
(* Spec: the program of kindle_sender.py, from main() to the hand-over of  *)
(* the extracted article to the output stage                               *)

\* URLs given on the command line or typed in interactive mode
TypedUrls == {SubstackUrl, SubSubstackUrl, CenitalUrl, ExampleUrl}

CommandLines ==
    [url : TypedUrls, file : {None}, no_send : BOOLEAN, debug_extraction : BOOLEAN]
        \cup [url : {None}, file : Paths, no_send : BOOLEAN, debug_extraction : BOOLEAN]
        \cup {NoArgs}

Env(newspaper, t1, r1ok, r2) ==
    [newspaper |-> newspaper, t1 |-> t1, r1ok |-> r1ok, r1http |-> FALSE, r2 |-> r2,
     readable |-> TRUE]

Tier1Raises == [raises |-> TRUE, title |-> <<>>, text |-> <<>>, authors |-> <<>>]
Tier1Anonymous ==
    [raises |-> FALSE, title |-> <<"T1">>, text |-> <<"X1">>, authors |-> <<>>]
Tier1Signed ==
    [raises |-> FALSE, title |-> <<"T1">>, text |-> <<"X1">>, authors |-> << <<"Ann">> >>]

\* what the network and the rich extractor may do in a run of the program
RunEnvs ==
    {Env(FALSE, Tier1Raises, TRUE, r2) : r2 \in {"ok", "conn"}}
        \cup {Env(TRUE, Tier1Raises, TRUE, r2) : r2 \in {"ok", "conn"}}
        \cup {Env(TRUE, Tier1Anonymous, FALSE, r2) : r2 \in {"ok", "conn"}}
        \cup {Env(TRUE, Tier1Anonymous, TRUE, "ok"), Env(TRUE, Tier1Signed, TRUE, "ok")}

\* a file is read or cannot be opened
FileEnvs == {PlainEnv, Unreadable}

\* the directory listings get_available_files may return
Listings == {<<>>, HtmlFiles}

Init ==
    /\ registry = BuiltinRegistry
    /\ handler = NoHandler
    /\ lookup = NoLookup
    /\ pc = "main"
    /\ Idle

\* URLs of the HTML fetches made by a call of extract_article
FetchesOf(url, o) == IF o.events # <<>> THEN {url} ELSE {}

\* main(): parse the command line and choose the entry path
Main(a) ==
    /\ pc = "main"
    /\ args' = a
    /\ IF a.url = None /\ a.file = None
       THEN mode' = "interactive" /\ pc' = "choose_source"
       ELSE mode' = "cli" /\ pc' = "cli_run"
    /\ UNCHANGED <<registry, handler, lookup, current, inp, out, handed, fetched,
                   attempts>>

\* CommandLineMode.run with _extract_article, up to the output stage:
\* any exception ends the process with status 1
CliRun(doc, env) ==
    /\ pc = "cli_run"
    /\ IF args.url # None THEN env \in RunEnvs ELSE env \in FileEnvs
    /\ \E o \in {IF args.url # None THEN UrlOutcome(registry, args.url, doc, env)
                 ELSE FileOutcome(registry, args.file, doc, env)} :
         \E h \in {HandedTo(o)} :
            /\ inp' = IF args.url # None THEN Call("url", args.url, doc, env)
                      ELSE Call("file", args.file, doc, env)
            /\ out' = o
            /\ handed' = h
            /\ fetched' = fetched \cup
                            (IF args.url # None THEN FetchesOf(args.url, o) ELSE {})
            /\ pc' = IF h.status = "ok" THEN "cli_output" ELSE "exit1"
    /\ UNCHANGED <<registry, handler, lookup, mode, args, current, attempts>>

\* InteractiveMode._choose_article_source: the source menu
ChooseArticleSource(choice) ==
    /\ pc = "choose_source"
    /\ IF choice = "exit"
       THEN pc' = "exit0" /\ UNCHANGED attempts
       ELSE /\ attempts < MaxAttempts
            /\ attempts' = attempts + 1
            /\ pc' = IF choice = "url" THEN "url_source" ELSE "file_source"
    /\ UNCHANGED <<registry, handler, lookup, mode, args, current, inp, out, handed,
                   fetched>>

\* the rest of _handle_url_source and _handle_file_source once the source
\* reference is known: extract, keep the article, or forget the reference
LoadArticle(kind, ref, doc, env) ==
    \E o \in {IF kind = "url" THEN UrlOutcome(registry, ref, doc, env)
              ELSE FileOutcome(registry, ref, doc, env)} :
      \E h \in {HandedTo(o)} :
        /\ inp' = Call(kind, ref, doc, env)
        /\ out' = o
        /\ handed' = h
        /\ fetched' = fetched \cup (IF kind = "url" THEN FetchesOf(ref, o) ELSE {})
        /\ IF h.status = "ok"
           THEN /\ current' = [current EXCEPT ![kind] = ref, !.title = h.title,
                                              !.content = h.body, !.author = h.author]
                /\ pc' = "main_menu"
           ELSE /\ current' = [current EXCEPT ![kind] = None]
                /\ pc' = "choose_source"

\* InteractiveMode._handle_url_source
HandleUrlSource(typed, doc, env) ==
    /\ pc = "url_source"
    /\ \E url \in {Strip(typed)} :
         IF url = <<>>
         THEN /\ current' = [current EXCEPT !.url = url]
              /\ pc' = "choose_source"
              /\ UNCHANGED <<inp, out, handed, fetched>>
         ELSE \E pv \in {RunPreValidation(registry, url)} :
                IF ~pv.allowed /\ pv.message # "None"
                THEN /\ current' = [current EXCEPT !.url = url]
                     /\ pc' = "choose_source"
                     /\ UNCHANGED <<inp, out, handed, fetched>>
                ELSE LoadArticle("url", url, doc, env)
    /\ UNCHANGED <<registry, handler, lookup, mode, args, attempts>>

\* InteractiveMode._handle_file_source; choice Len(listing) + 1 is "Go back"
HandleFileSource(listing, choice, doc, env) ==
    /\ pc = "file_source"
    /\ choice \in 1..(Len(listing) + 1)
    /\ IF listing = <<>> \/ choice = Len(listing) + 1
       THEN /\ pc' = "choose_source"
            /\ UNCHANGED <<current, inp, out, handed, fetched>>
       ELSE LoadArticle("file", HtmlDir \o listing[choice], doc, env)
    /\ UNCHANGED <<registry, handler, lookup, mode, args, attempts>>

Next ==
    \/ \E a \in CommandLines : Main(a)
    \/ \E doc \in SiteDocs : \E env \in RunEnvs \cup FileEnvs : CliRun(doc, env)
    \/ \E choice \in {"url", "html_file", "exit"} : ChooseArticleSource(choice)
    \/ \E typed \in TypedUrls \cup {<<>>, <<" ">>} : \E doc \in SiteDocs :
         \E env \in RunEnvs : HandleUrlSource(typed, doc, env)
    \/ \E listing \in Listings : \E choice \in 1..(Len(HtmlFiles) + 1) :
         \E doc \in SiteDocs : \E env \in FileEnvs :
            HandleFileSource(listing, choice, doc, env)

Spec == Init /\ [][Next]_vars

----------------------------------------------------------------------------
(* Properties *)

ResolvesToSubstack(url) == GetHandler(registry, url).kind = "substack"

\* C1: for every URL that resolves to the Substack handler, on the
\* interactive and on the command-line path, pre-validation refuses it with a
\* non-empty message and no HTML fetch is ever attempted for it.
C1_SubstackNeverFetched ==
    /\ \A u \in TypedUrls :
         ResolvesToSubstack(u) =>
            /\ ~RunPreValidation(registry, u).allowed
            /\ RunPreValidation(registry, u).message \notin {"None", ""}
    /\ \A u \in fetched : ~ResolvesToSubstack(u)

\* C2: whenever the core extraction returned (title, body, author), the
\* orchestrating call completes and hands the same three values to its
\* caller, and the run proceeds to the output stage.
C2_ExtractionHandedOver ==
    out.status = "ok" =>
        /\ handed = [status |-> "ok", title |-> out.title, body |-> out.body,
                     author |-> out.author]
        /\ pc \in {"cli_output", "main_menu"}

\* C3: every result returned by extract_article or extract_from_file has a
\* non-empty title and a non-empty body.
C3_ReturnedArticleNonEmpty ==
    (pc = "returned" /\ out.status = "ok") => (out.title # <<>> /\ out.body # <<>>)

\* the bare domain of a URL, written out for the properties
BareDomain(url) ==
    LET n == Netloc(url)
    IN  IF Len(n) >= 2 /\ n[1] = "www" /\ n[2] = "." THEN SubSeq(n, 3, Len(n)) ELSE n

\* candidate = label + "." + D for some label
HasParent(candidate, D) ==
    \E k \in 1..Len(candidate) :
        /\ candidate[k] = "."
        /\ SubSeq(candidate, k + 1, Len(candidate)) = D

\* C4: get_handler returns the handler registered under exactly the bare
\* domain of the URL if there is one, otherwise a handler whose domain is a
\* dot-bounded suffix of it, otherwise none; sub.substack.com resolves to the
\* Substack handler, example.com and notsubstack.com to none.
C4_HandlerResolution ==
    LET reg == lookup.handlers
        d == BareDomain(lookup.url)
        exact == {i \in 1..Len(reg) : reg[i].domain = d}
        parents == {i \in 1..Len(reg) : HasParent(d, reg[i].domain)}
    IN  /\ IF exact # {} THEN \E i \in exact : handler = reg[i]
           ELSE IF parents # {} THEN \E i \in parents : handler = reg[i]
           ELSE handler = NoHandler
        /\ (reg = BuiltinRegistry /\ lookup.url = SubSubstackUrl)
              => handler = SubstackHandler
        /\ (reg = BuiltinRegistry /\ lookup.url \in {ExampleUrl, NotSubstackUrl})
              => handler = NoHandler

\* a subdomain of substack.com was looked up and the lookup gave its handler,
\* and a domain that merely ends in "substack.com" was looked up
C4_Witness ==
    \/ lookup.url = SubSubstackUrl /\ handler = SubstackHandler
    \/ lookup.url = NotSubstackUrl /\ handler = NoHandler /\ Len(lookup.handlers) > 2

\* the call under study went through the structural extraction of a parsed
\* document (the page was served, or the file was read)
Structural ==
    /\ pc = "returned"
    /\ out.tier = 2
    /\ IF inp.kind = "url" THEN inp.env.r2 = "ok" ELSE inp.env.readable

FirstOf(doc, tag) == First({i \in All(doc) : doc[i].tag = tag})

\* the stripped text of an element and of what it contains
RECURSIVE TextOf(_, _, _)
TextOf(doc, a, n) ==
    IF n = 0 THEN <<>>
    ELSE TextOf(doc, a, n - 1) \o (IF Anc(doc, n, a) THEN Strip(doc[n].text) ELSE <<>>)

\* C5: when the document has an <h1> with non-empty text, the title of the
\* structural extraction is the trimmed text of the first <h1>, for a URL
\* and for a file, whether or not there is a <title>.
C5_TitleIsFirstH1 ==
    LET h1 == FirstOf(inp.doc, "h1")
    IN  (Structural /\ out.status = "ok" /\ h1 # 0
            /\ TextOf(inp.doc, h1, Len(inp.doc)) # <<>>)
           => out.title = TextOf(inp.doc, h1, Len(inp.doc))

\* the base name of a path without a final ".html"
WithoutExtension(path) ==
    LET slashes == {i \in 1..Len(path) : path[i] \in {"/", "//"}}
        from == IF slashes = {} THEN 1
                ELSE (CHOOSE i \in slashes : \A j \in slashes : j <= i) + 1
        base == SubSeq(path, from, Len(path))
    IN  IF base # <<>> /\ base[Len(base)] = ".html" THEN SubSeq(base, 1, Len(base) - 1)
        ELSE base

\* C6: when the document has no <h1>, the title is the <title> text for a
\* file and the network location for a URL; for a file with no non-empty
\* <title> either, it is the base name without its ".html" extension.
C6_TitleWithoutH1 ==
    LET t == FirstOf(inp.doc, "title")
        text == IF t = 0 THEN <<>> ELSE TextOf(inp.doc, t, Len(inp.doc))
    IN  (Structural /\ out.status = "ok" /\ FirstOf(inp.doc, "h1") = 0)
           => out.title = IF inp.kind = "url" THEN Netloc(inp.ref)
                          ELSE IF text # <<>> THEN text
                          ELSE WithoutExtension(inp.ref)

\* the element is one of the non-content elements or lies inside one
InNonContent(doc, i) ==
    \E a \in 1..Len(doc) :
        /\ doc[a].tag \in {"script", "style", "nav", "footer", "header", "aside", "form"}
        /\ Anc(doc, i, a)

\* the atoms of the text found outside the non-content elements
ContentAtoms(doc) ==
    UNION {Atoms(doc[i].text) : i \in {j \in 1..Len(doc) : ~InNonContent(doc, j)}}

\* C7: no text that occurs only inside script, style, nav, footer, header,
\* aside or form elements appears in the body of the structural extraction,
\* whether the body comes from the paragraphs of a container, from those of
\* the whole document body, or from the plain text of the last resort.
C7_NoNonContentText ==
    (Structural /\ out.status = "ok")
        => /\ Atoms(out.body) \subseteq ContentAtoms(inp.doc) \cup {"\n"}
           /\ Atoms(out.joined) \subseteq ContentAtoms(inp.doc) \cup {"\n"}

\* a body was returned for a document with text inside a non-content
\* element: once from paragraphs, once from the last resort of file mode
C7_Witness ==
    /\ Structural /\ out.status = "ok"
    /\ \E i \in 1..Len(inp.doc) :
          InNonContent(inp.doc, i) /\ Strip(inp.doc[i].text) # <<>>
    /\ out.lastResort

\* the elements left after the non-content elements are removed
Kept(doc) == {i \in 1..Len(doc) : ~InNonContent(doc, i)}

\* the container the priority order article, main, .content,
\* .article-content, .post-content selects, the document body when none
\* matches, 0 when there is no body either
ExpectedContainer(doc) ==
    LET kept == Kept(doc)
        byTag(t) == {i \in kept : doc[i].tag = t}
        byClass(c) == {i \in kept : doc[i].cls = c}
    IN  IF byTag("article") # {} THEN First(byTag("article"))
        ELSE IF byTag("main") # {} THEN First(byTag("main"))
        ELSE IF byClass("content") # {} THEN First(byClass("content"))
        ELSE IF byClass("article-content") # {} THEN First(byClass("article-content"))
        ELSE IF byClass("post-content") # {} THEN First(byClass("post-content"))
        ELSE First(byTag("body"))

\* the stripped text of what is left of an element
RECURSIVE KeptTextOf(_, _, _)
KeptTextOf(doc, a, n) ==
    IF n = 0 THEN <<>>
    ELSE KeptTextOf(doc, a, n - 1)
         \o (IF n \in Kept(doc) /\ Anc(doc, n, a) THEN Strip(doc[n].text) ELSE <<>>)

\* the blank-line join of the non-blank p, h2, h3, h4 texts among the first
\* n elements that lie inside container c
RECURSIVE ExpectedJoin(_, _, _)
ExpectedJoin(doc, c, n) ==
    IF n = 0 THEN <<>>
    ELSE LET before == ExpectedJoin(doc, c, n - 1)
             text == KeptTextOf(doc, n, Len(doc))
             block == /\ n \in Kept(doc) /\ n # c /\ Anc(doc, n, c)
                      /\ doc[n].tag \in {"p", "h2", "h3", "h4"}
                      /\ text # <<>>
         IN  IF ~block THEN before
             ELSE IF before = <<>> THEN text
             ELSE before \o <<"\n", "\n">> \o text

ArticleContentExample ==
    << Elem(K("div", "article-content", <<>>), 0), Elem(K("p", "", <<"A">>), 1),
       Elem(K("h2", "", <<"B">>), 1) >>

\* C8: in the structural extraction the body is the blank-line join, in
\* document order, of the trimmed non-blank texts of the p, h2, h3 and h4
\* elements inside the main-content container, the container being the first
\* match in the order article, main, .content, .article-content,
\* .post-content and the document body when none matches; the example
\* <div class="article-content"><p>A</p><h2>B</h2></div> gives "A\n\nB".
C8_BodyIsJoinOfContainer ==
    Structural =>
        LET c == ExpectedContainer(inp.doc)
        IN  /\ out.container = c
            /\ c # 0 => out.joined = ExpectedJoin(inp.doc, c, Len(inp.doc))
            /\ (out.status = "ok" /\ ~out.lastResort
                  /\ GetHandler(registry, inp.ref) = NoHandler)
                 => out.body = ExpectedJoin(inp.doc, c, Len(inp.doc))
            /\ inp.doc = ArticleContentExample
                 => (out.status = "ok" /\ out.body = <<"A", "\n", "\n", "B">>)

\* the example document was extracted, and so was a document in which a
\* container of lower priority comes first
C8_Witness ==
    /\ Structural /\ out.status = "ok"
    /\ \/ inp.doc = ArticleContentExample /\ out.body = <<"A", "\n", "\n", "B">>
       \/ /\ Len(inp.doc) >= 3
          /\ inp.doc[1].tag = "main" /\ inp.doc[2].tag = "article"
          /\ out.container = 2

\* C9: in the structural fallback, for a URL and for a file alike, when the
\* container gives no paragraph or heading text the body is the plain text
\* of the document body, and the extraction fails only if that is empty too.
C9_LastResortEverywhere ==
    LET c == ExpectedContainer(inp.doc)
        body == First({i \in Kept(inp.doc) : inp.doc[i].tag = "body"})
        plain == IF body = 0 THEN <<>> ELSE KeptTextOf(inp.doc, body, Len(inp.doc))
        h1 == FirstOf(inp.doc, "h1")
        titled == inp.kind = "file" \/ h1 = 0 \/ TextOf(inp.doc, h1, Len(inp.doc)) # <<>>
    IN  (Structural /\ c # 0 /\ titled
            /\ ExpectedJoin(inp.doc, c, Len(inp.doc)) = <<>> /\ plain # <<>>)
           => /\ out.status = "ok"
              /\ out.body = RunPostProcessing(registry, inp.ref, out.title, plain).content

\* C10: whenever the rich extractor gives a non-empty title and a non-empty
\* body, extract_article returns them (after post-processing) and the
\* structural fallback is not run, whatever happens in the author lookup.
C10_Tier1Accepted ==
    (/\ pc = "returned" /\ inp.kind = "url" /\ inp.env.newspaper
     /\ ~inp.env.t1.raises /\ inp.env.t1.title # <<>> /\ inp.env.t1.text # <<>>)
        => /\ out.status = "ok"
           /\ out.tier = 1
           /\ out.title = inp.env.t1.title
           /\ out.body = RunPostProcessing(registry, inp.ref, inp.env.t1.title,
                                           inp.env.t1.text).content
           /\ \A k \in 1..Len(out.events) : out.events[k] # "requests.get:fallback"

\* the call under study is a finished extract_article call
UrlCallReturned == pc = "returned" /\ inp.kind = "url"

Fetched(event) == \E k \in 1..Len(out.events) : out.events[k] = event

\* tier 1 was tried and raised, or came back with an empty title or body
Tier1Unusable ==
    /\ inp.env.newspaper
    /\ inp.env.t1.raises \/ inp.env.t1.title = <<>> \/ inp.env.t1.text = <<>>

\* C11: when tier 1 raises or returns an empty title or an empty body,
\* extract_article goes on to the structural fallback tier, and the call
\* returns or fails exactly as that tier does.
C11_Tier1FailureFallsThrough ==
    (UrlCallReturned /\ Tier1Unusable)
        => LET t2 == FallbackTier(registry, inp.ref, inp.doc, inp.env, <<>>)
           IN  /\ Fetched("requests.get:fallback")
               /\ out.tier = 2
               /\ out.status = t2.status
               /\ out.title = t2.title /\ out.body = t2.body /\ out.author = t2.author

\* tier 1 raised, and in another call returned an empty body, and the fallback
\* tier returned an article
C11_Witness ==
    /\ UrlCallReturned /\ Tier1Unusable
    /\ out.status = "ok" /\ out.body # <<>>
    /\ inp.env.t1.raises \/ inp.env.t1.title # <<>>

\* C12: a fetch of the page that fails to connect or comes back with a
\* non-success status makes extract_article fail, and nothing of an error
\* response ends up in a returned title, body or author.
C12_FetchFailureFails ==
    UrlCallReturned
        => /\ (Fetched("requests.get:fallback") /\ inp.env.r2 # "ok")
                 => out.status = "error"
           /\ (Fetched("requests.get:author") /\ (~inp.env.r1ok \/ inp.env.r1http))
                 => out.status = "error"
           /\ out.status = "ok"
                 => \A a \in Atoms(out.title) \cup Atoms(out.body) \cup Atoms(out.author) :
                        \A i \in 1..Len(ErrorPage) : a \notin Atoms(ErrorPage[i].text)

\* C15: on every extraction path the author is extracted from the parsed
\* document the content is extracted from, as it is before the non-content
\* elements are removed.
C15_AuthorFromContentDocument ==
    (/\ pc = "returned" /\ out.status = "ok"
     /\ inp.kind = "url" /\ out.tier = 1 => inp.env.t1.authors = <<>>)
        => out.author = ExtractAuthorFromSoup(inp.doc)

----------------------------------------------------------------------------
(* SpecAuthor: single calls of extract_author_from_soup *)

\* bylines as sites write them: "Byron Smith", a one-letter text, a label with
\* a colon and a trailing section, a sign of the range À-ÿ, a social handle
BylineKinds ==
    { K("span", "author", <<"By", "ron Smith">>), K("span", "author", <<"X">>),
      K("span", "byline", <<"By", ":", " ", "Jane Doe", " ", "|", " ", "Desk">>),
      K("address", "", <<"A", " ", "U+00D7", " ", "B">>),
      K("div", "author-name", <<"Ann", " ", "@", "ann">>),
      K("div", "post-author", <<"Lukasz(U+0141)">>) }

RejectKinds ==
    { K("span", "author", <<"Long name">>), K("span", "author", <<" ">>),
      K("span", "byline", <<"Jane Doe", "1">>), K("span", "author", <<"Author">>),
      K("address", "", <<"Ann">>), K("span", "author", <<"Por", " ", "Ann">>) }

MetaKinds ==
    { Meta("name=author", <<"Jane Doe">>), Meta("name=author", <<>>),
      Meta("property=article:author", <<"@", "ann">>),
      Meta("name=twitter:creator", <<"@", "A">>),
      Meta("name=dc.creator", <<" ", "Ann", " ">>), K("span", "author", <<"1">>) }

AuthorFamilies == {AuthorKinds, BylineKinds, RejectKinds, MetaKinds}

InitAuthor ==
    /\ registry = BuiltinRegistry
    /\ handler = NoHandler
    /\ lookup = NoLookup
    /\ pc = "call"
    /\ mode = "none" /\ args = NoArgs /\ current = NoCurrent
    /\ \E kinds \in AuthorFamilies : \E d \in DocsOf(kinds, MaxNodes) :
           inp = Call("soup", <<>>, d, PlainEnv)
    /\ out = NoOutcome /\ handed = NotHanded
    /\ fetched = {} /\ attempts = 0

\* extract_author_from_soup(soup)
CallExtractAuthorFromSoup ==
    /\ pc = "call"
    /\ inp.kind = "soup"
    /\ out' = [NoOutcome EXCEPT !.status = "ok", !.author = ExtractAuthorFromSoup(inp.doc)]
    /\ pc' = "returned"
    /\ UNCHANGED <<registry, handler, lookup, mode, args, current, inp, handed, fetched,
                   attempts>>

NextAuthor == CallExtractAuthorFromSoup

SpecAuthor == InitAuthor /\ [][NextAuthor]_vars

\* the call under study is a finished extract_author_from_soup call
AuthorCallReturned == pc = "returned" /\ inp.kind = "soup"

\* atoms made of letters, accented Latin letters included
LetterAtoms == (NameAtoms \ {"U+00D7"}) \cup {"Lukasz(U+0141)"}

\* a leading label: one of the label words standing as a word of its own
HasLabel(text) ==
    /\ text # <<>> /\ Head(text) \in LabelAtoms
    /\ Len(text) = 1 \/ text[2] \in Whitespace \cup {":"}

\* the cleaning of a candidate's text: label, handle and trailing section off
Cleaned(text) ==
    Strip(CleanSuffix(IF HasLabel(text) THEN CleanPrefix(text) ELSE text))

\* letters, spaces, periods, hyphens and apostrophes, at most 6 tokens
NameShaped(text) ==
    /\ text # <<>>
    /\ \A i \in 1..Len(text) : text[i] \in LetterAtoms \cup {" ", ".", "-", "'"}
    /\ WordCount(text) <= 6

\* the candidates of one selector pattern that are neither empty nor longer
\* than 100 characters and whose cleaned text is name-shaped
Acceptable(doc, k) ==
    {i \in All(doc) :
       /\ Matches(doc[i], AuthorPatterns[k])
       /\ GetText(doc, All(doc), i) # <<>>
       /\ CharLen(GetText(doc, All(doc), i)) <= 100
       /\ NameShaped(Cleaned(GetText(doc, All(doc), i)))}

\* the cleaned text of the first acceptable candidate, in pattern order then
\* document order
FirstAcceptable(doc) ==
    LET ks == {k \in 1..Len(AuthorPatterns) : Acceptable(doc, k) # {}}
    IN  IF ks = {} THEN NoAuthor
        ELSE Cleaned(GetText(doc, All(doc), First(Acceptable(doc, First(ks)))))

\* C13: the selector phase returns the cleaned text of the first candidate,
\* in pattern order then document order, that is neither empty nor longer
\* than 100 characters and whose cleaned text is name-shaped; and an author
\* returned by the selector phase is name-shaped.
C13_SelectorPhase ==
    AuthorCallReturned
        => /\ FirstAcceptable(inp.doc) # NoAuthor => out.author = FirstAcceptable(inp.doc)
           /\ SelectorAuthor(inp.doc, 1) # NoAuthor => NameShaped(out.author)

\* the meta tags in the order they are to be consulted
MetaOrder ==
    <<"name=author", "property=article:author", "name=dc.creator", "name=twitter:creator">>

\* the content attribute of the first meta tag of the k-th kind, '@' stripped
MetaContent(doc, k) ==
    LET tags == {i \in All(doc) : doc[i].tag = "meta" /\ doc[i].attr = MetaOrder[k]}
        content == IF tags = {} THEN <<>> ELSE Strip(doc[First(tags)].content)
    IN  IF content # <<>> /\ Head(content) = "@" THEN Tail(content) ELSE content

JaneDoeDoc ==
    << [tag |-> "meta", cls |-> "", attr |-> "name=author", content |-> <<"Jane Doe">>,
        text |-> <<>>, parent |-> 0] >>

\* C14: when no selector yields an acceptable author, the meta tags
\* name=author, property=article:author, name=dc.creator, name=twitter:creator
\* are consulted in that order (the first tag of each) and the first content,
\* leading '@' stripped, of 2 to 100 characters is returned; no author when
\* none qualifies; <meta name="author" content="Jane Doe"> gives "Jane Doe".
C14_MetaPhase ==
    (AuthorCallReturned /\ SelectorAuthor(inp.doc, 1) = NoAuthor)
        => LET ok == {k \in 1..4 : /\ CharLen(MetaContent(inp.doc, k)) >= 2
                                    /\ CharLen(MetaContent(inp.doc, k)) <= 100}
           IN  /\ out.status = "ok"
               /\ ok # {} => out.author = MetaContent(inp.doc, First(ok))
               /\ ok = {} => out.author = NoAuthor
               /\ inp.doc = JaneDoeDoc => out.author = <<"Jane Doe">>

\* an empty name=author tag was passed over and the handle of the
\* article:author tag was returned without its '@'; and the example
C14_Witness ==
    /\ AuthorCallReturned /\ SelectorAuthor(inp.doc, 1) = NoAuthor
    /\ \/ /\ out.author = <<"ann">>
          /\ \E i \in All(inp.doc) :
                 inp.doc[i].attr = "name=author" /\ inp.doc[i].content = <<>>
       \/ inp.doc = JaneDoeDoc /\ out.author = <<"Jane Doe">>

----------------------------------------------------------------------------
(* epub_generator.py: sanitize_text_for_kindle; a text is a sequence of    *)
(* characters, one atom each                                               *)

\* U+0301, a combining mark (category Mn)
CombiningAcute == "U+0301"
CombiningMarks == {CombiningAcute}

\* unicodedata.normalize('NFD', text): a precomposed letter becomes its base
\* letter followed by its combining mark
Decompose(c) == IF c = "E_ACUTE" THEN <<"e", CombiningAcute>> ELSE <<c>>

RECURSIVE NFD(_)
NFD(text) == IF text = <<>> THEN <<>> ELSE Decompose(Head(text)) \o NFD(Tail(text))

\* ''.join(char for char in normalized if unicodedata.category(char) != 'Mn')
DropMarks(text) == SelectSeq(text, LAMBDA c : c \notin CombiningMarks)

Letters == {"a", "e", "E_ACUTE", "O_STROKE", "U", "n", "k", "o", "w"}
Digits == {"1"}
\* \w: the alphanumeric characters and the underscore
WordChars == Letters \cup Digits \cup {"_"}
\* the punctuation named in the character class
KeptPunctuation == {"-", ".", ",", "!", "?", "(", ")", ":", ";"}

\* re.sub(r'[^\w\s\-.,!?():;]', '', ascii_text)
DropOthers(text) ==
    SelectSeq(text, LAMBDA c : c \in WordChars \cup Whitespace \cup KeptPunctuation)

\* a plausible slip: runs of whitespace left as they are
KeepWhitespace(text) == text

\* re.sub(r'\s+', ' ', sanitized)
RECURSIVE CollapseWhitespace(_)
CollapseWhitespace(text) ==
    IF text = <<>> THEN <<>>
    ELSE IF Head(text) \in Whitespace
         THEN <<" ">> \o CollapseWhitespace(LStrip(text))
         ELSE <<Head(text)>> \o CollapseWhitespace(Tail(text))

\* a plausible slip: the text trimmed before, not after, the characters go
SanitizeTrimmingFirst(text) ==
    IF text = <<>> \/ text = None THEN text
    ELSE DropOthers(DropMarks(NFD(Strip(CollapseWhitespace(text)))))

\* sanitize_text_for_kindle(text)
SanitizeTextForKindle(text) ==
    IF text = <<>> \/ text = None THEN text
    ELSE Strip(CollapseWhitespace(DropOthers(DropMarks(NFD(text)))))

----------------------------------------------------------------------------
(* SpecSanitize: sanitize_text_for_kindle applied, then applied again *)

\* the characters of the texts tried: letters plain, precomposed and without
\* decomposition, a digit, the underscore, whitespace, kept and dropped signs
SanitizerAlphabet ==
    {"a", "E_ACUTE", "O_STROKE", CombiningAcute, "1", "_", " ", "\n", "-", "#"}

NotSanitized == [once |-> None, twice |-> None]

InitSanitize ==
    /\ registry = BuiltinRegistry
    /\ handler = NoHandler
    /\ lookup = NoLookup
    /\ pc = "call"
    /\ mode = "none" /\ args = NoArgs /\ current = NoCurrent
    /\ \/ \E n \in 0..MaxText : \E t \in [1..n -> SanitizerAlphabet] :
              inp = [kind |-> "text", text |-> t]
       \/ inp = [kind |-> "text", text |-> None]
    /\ out = NotSanitized /\ handed = NotHanded
    /\ fetched = {} /\ attempts = 0

\* sanitize_text_for_kindle(text)
CallSanitize ==
    /\ pc = "call"
    /\ out' = [out EXCEPT !.once = SanitizeTextForKindle(inp.text)]
    /\ pc' = "sanitized"
    /\ UNCHANGED <<registry, handler, lookup, mode, args, current, inp, handed, fetched,
                   attempts>>

\* sanitize_text_for_kindle applied to its own result
CallSanitizeAgain ==
    /\ pc = "sanitized"
    /\ out' = [out EXCEPT !.twice = SanitizeTextForKindle(out.once)]
    /\ pc' = "resanitized"
    /\ UNCHANGED <<registry, handler, lookup, mode, args, current, inp, handed, fetched,
                   attempts>>

NextSanitize == CallSanitize \/ CallSanitizeAgain

SpecSanitize == InitSanitize /\ [][NextSanitize]_vars

\* C16: sanitize_text_for_kindle is idempotent: applied to its own result it
\* gives that result back, for every input.
C16_SanitizeIdempotent ==
    pc = "resanitized" => out.twice = out.once

\* a text that the sanitizer changed, and did not empty, was sanitized twice
C16_Witness ==
    /\ pc = "resanitized"
    /\ out.once # inp.text /\ Len(out.once) >= 2
    /\ \E i \in 1..Len(inp.text) : inp.text[i] \in {"#", "E_ACUTE"}

Sanitized == pc \in {"sanitized", "resanitized"} /\ inp.text # None

\* no whitespace at either end and no two whitespace characters in a row
SingleSpaced(text) ==
    /\ text # <<>> => Head(text) \notin Whitespace /\ text[Len(text)] \notin Whitespace
    /\ \A i \in 1..(Len(text) - 1) : ~(text[i] \in Whitespace /\ text[i + 1] \in Whitespace)

\* C17: every character of the sanitizer's output is alphanumeric, a single
\* space or one of - . , ! ? ( ) : ; (no underscore, no combining mark), and
\* the output has no whitespace at its ends and no run of whitespace.
C17_OnlyAllowedCharacters ==
    Sanitized
        => /\ \A i \in 1..Len(out.once) :
                  out.once[i] \in Letters \cup Digits \cup {" "} \cup KeptPunctuation
           /\ SingleSpaced(out.once)

\* C17 as the code has it: the underscore, which \w matches, is kept as well.
C17_AllowedCharactersAndUnderscore ==
    Sanitized
        => /\ \A i \in 1..Len(out.once) :
                  out.once[i] \in Letters \cup Digits \cup {"_", " "} \cup KeptPunctuation
           /\ SingleSpaced(out.once)

\* a text with an underscore, a dropped sign and whitespace was sanitized
C17_Witness ==
    /\ Sanitized
    /\ \E i \in 1..Len(out.once) : out.once[i] = "_"
    /\ \E i \in 1..Len(inp.text) : inp.text[i] \in {"#", CombiningAcute, "\n"}

----------------------------------------------------------------------------
(* epub_generator.py: create_epub, up to the metadata given to the book *)

LocalFilePrefix == "Local file: "
Unknown == <<"U", "n", "k", "n", "o", "w", "n">>

\* a plausible slip: an extracted author used as it came
EpubAuthorUnsanitized(author, source_reference) ==
    IF author # None /\ author # <<>> THEN author
    ELSE SanitizeTextForKindle(Unknown)

\* the author before the user is asked: the extracted one, else the file name
\* of a local file, else the URL's network location, else "Unknown"
EpubAuthor(author, source_reference) ==
    IF author # None /\ author # <<>> THEN SanitizeTextForKindle(author)
    ELSE LET fallback ==
                 IF source_reference # <<>> /\ Head(source_reference) = LocalFilePrefix
                 THEN Remove(source_reference, LocalFilePrefix)
                 ELSE IF Netloc(source_reference) # <<>> THEN Netloc(source_reference)
                 ELSE Unknown
         IN  SanitizeTextForKindle(fallback)

\* input(...).lower().strip() == 'y'
Overrides(answer) == answer \in {"y", "Y", " y "}

\* a value kept, or replaced by the sanitized non-empty answer of the user
Overridden(value, answer, typed) ==
    IF Overrides(answer) /\ Strip(typed) # <<>> THEN SanitizeTextForKindle(Strip(typed))
    ELSE value

\* create_epub: the title and the author given to set_title and add_author
CreateEpub(title, author, source_reference, answer, new_title, new_author) ==
    [set_title |-> Overridden(SanitizeTextForKindle(title), answer, new_title),
     add_author |-> Overridden(EpubAuthor(author, source_reference), answer, new_author)]

----------------------------------------------------------------------------
(* SpecEpub: single calls of create_epub *)

EpubTitles == {<<"a", "#", "E_ACUTE">>, <<"_", " ", " ", "1">>, <<"#">>, <<>>}
EpubAuthors == {None, <<>>, <<" ", "a", "\n", "\n", "e">>, <<"O_STROKE", "#">>}
SourceReferences ==
    { <<LocalFilePrefix, "a", "#", "1">>, <<"https:", "//", "a", "-", "1", Slash, "e">>,
      <<"a", Slash, "e">> }
Answers == {"y", "Y", "n", ""}
TypedTexts == {<<>>, <<" ">>, <<" ", "E_ACUTE", "#", " ", " ", "a">>}

InitEpub ==
    /\ registry = BuiltinRegistry
    /\ handler = NoHandler
    /\ lookup = NoLookup
    /\ pc = "call"
    /\ mode = "none" /\ args = NoArgs /\ current = NoCurrent
    /\ \E t \in EpubTitles, a \in EpubAuthors, r \in SourceReferences, y \in Answers,
          nt \in TypedTexts, na \in TypedTexts :
           inp = [kind |-> "epub", title |-> t, author |-> a, source_reference |-> r,
                  answer |-> y, new_title |-> nt, new_author |-> na]
    /\ out = [set_title |-> None, add_author |-> None] /\ handed = NotHanded
    /\ fetched = {} /\ attempts = 0

\* create_epub(title, content, source_reference, author=author)
CallCreateEpub ==
    /\ pc = "call"
    /\ out' = CreateEpub(inp.title, inp.author, inp.source_reference, inp.answer,
                         inp.new_title, inp.new_author)
    /\ pc' = "packaged"
    /\ UNCHANGED <<registry, handler, lookup, mode, args, current, inp, handed, fetched,
                   attempts>>

NextEpub == CallCreateEpub

SpecEpub == InitEpub /\ [][NextEpub]_vars

\* a text the sanitizer leaves as it is, which is what its outputs are
SanitizerOutput(text) == SanitizeTextForKindle(text) = text

\* C18: on every path through create_epub the title given to set_title and
\* the author given to add_author are outputs of sanitize_text_for_kindle.
C18_MetadataSanitized ==
    pc = "packaged"
        => /\ SanitizerOutput(out.set_title) /\ SanitizerOutput(out.add_author)
           /\ out.set_title \in
                  {SanitizeTextForKindle(inp.title), SanitizeTextForKindle(Strip(inp.new_title))}
           /\ out.add_author \in
                  {SanitizeTextForKindle(x) :
                     x \in {inp.author, Strip(inp.new_author), Unknown,
                            Netloc(inp.source_reference),
                            Remove(inp.source_reference, LocalFilePrefix)}}

\* an extracted author that needed cleaning went into the book, in a call
\* where the user replaced the title
C18_Witness ==
    /\ pc = "packaged"
    /\ inp.author \notin {None, <<>>} /\ out.add_author # inp.author
    /\ Overrides(inp.answer) /\ Strip(inp.new_title) # <<>>
    /\ out.set_title = <<"e", " ", "a">>

----------------------------------------------------------------------------
(* SpecCenital: single calls of CenitalHandler.post_processing; a body is  *)
(* a sequence of pieces: lines of text, newlines, the marker, the paragraph *)

BodyPieces == {"A", "\n", OtrasLecturas, SubscriptionText}

\* the subscription paragraph between two paragraphs, 4 blank lines after it
SubscriptionExample ==
    <<"A", "\n", "\n", SubscriptionText, "\n", "\n", "\n", "\n", "\n", "B">>

InitCenital ==
    /\ registry = BuiltinRegistry
    /\ handler = NoHandler
    /\ lookup = NoLookup
    /\ pc = "call"
    /\ mode = "none" /\ args = NoArgs /\ current = NoCurrent
    /\ \E t \in {<<"T1">>, <<"Head">>} :
          \/ \E n \in 0..MaxBody : \E b \in [1..n -> BodyPieces] :
                 inp = [kind |-> "cenital", title |-> t, body |-> b]
          \/ inp = [kind |-> "cenital", title |-> t, body |-> SubscriptionExample]
    /\ out = [title |-> None, content |-> None] /\ handed = NotHanded
    /\ fetched = {} /\ attempts = 0

\* CenitalHandler().post_processing(title, content)
CallCenitalPostProcessing ==
    /\ pc = "call"
    /\ out' = CenitalPostProcessing(inp.title, inp.body)
    /\ pc' = "processed"
    /\ UNCHANGED <<registry, handler, lookup, mode, args, current, inp, handed, fetched,
                   attempts>>

NextCenital == CallCenitalPostProcessing

SpecCenital == InitCenital /\ [][NextCenital]_vars

\* the pieces of a body before the first occurrence of the marker
BeforeMarker(body) ==
    IF IndexOf(body, OtrasLecturas) = 0 THEN body
    ELSE SubSeq(body, 1, IndexOf(body, OtrasLecturas) - 1)

\* the lines of text of a body, in order
TextLines(body) == SelectSeq(body, LAMBDA x : x = "A" \/ x = "B")

\* C19: Cenital post-processing leaves the title as it is, cuts the body at
\* the first 'Otras lecturas', removes the subscription paragraph, and leaves
\* no run of 3 or more newlines in the result; the paragraph followed by 4
\* blank lines and more text becomes one blank line before that text.
C19_CenitalPostProcessing ==
    pc = "processed"
        => /\ out.title = inp.title
           /\ TextLines(out.content) = TextLines(BeforeMarker(inp.body))
           /\ OtrasLecturas \notin Atoms(out.content)
           /\ SubscriptionText \notin Atoms(out.content)
           /\ \A i \in 1..(Len(out.content) - 2) :
                  ~(out.content[i] = "\n" /\ out.content[i + 1] = "\n"
                      /\ out.content[i + 2] = "\n")
           /\ inp.body = SubscriptionExample => out.content = <<"A", "\n", "\n", "B">>

\* the source of a finished call resolves to no handler
NoHandlerApplies == GetHandler(registry, inp.ref) = NoHandler

\* the body the structural extraction arrived at before post-processing
ExtractedBody ==
    IF out.lastResort
    THEN GetText(inp.doc, Live(inp.doc), Find(inp.doc, Live(inp.doc), "body"))
    ELSE out.joined

\* C20: for a source that resolves to no handler pre-validation gives
\* (True, None) and post-processing gives back the title and body; every
\* local file path resolves to no handler, so extract_from_file returns the
\* body it extracted.
C20_NoHandlerNoChange ==
    (pc = "returned" /\ inp.kind \in {"url", "file"})
        => /\ NoHandlerApplies
                 => /\ RunPreValidation(registry, inp.ref)
                          = [allowed |-> TRUE, message |-> "None"]
                    /\ (out.status = "ok" /\ out.tier = 2) => out.body = ExtractedBody
           /\ inp.kind = "file"
                 => /\ NoHandlerApplies
                    /\ out.status = "ok" => out.body = ExtractedBody

----------------------------------------------------------------------------
(* SpecExtract: the form in which a failure reaches the caller *)

\* the steps of the structural extraction that can fail, read off the input
FetchFails == inp.kind = "url" /\ Fetched("requests.get:fallback") /\ inp.env.r2 # "ok"
FileUnreadable == inp.kind = "file" /\ ~inp.env.readable
NoContainerNoBody ==
    /\ Structural
    /\ \A i \in 1..Len(inp.doc) :
          \/ inp.doc[i].tag \notin {"article", "main", "body"}
                /\ inp.doc[i].cls \notin {"content", "article-content", "post-content"}
          \/ \E a \in 1..Len(inp.doc) :
                Anc(inp.doc, i, a) /\ inp.doc[a].tag \in NonContentTags
NothingExtracted ==
    /\ Structural
    /\ out.joined = <<>>
    /\ inp.kind = "file" => ~out.lastResort

\* C22: every failure of extract_article or extract_from_file (fetch failure,
\* unreadable file, missing document body, empty content) reaches the caller
\* as a raised ValueError and never as a returned (title, body, author); no
\* exception of another type leaves the two functions.
C22_FailuresAreValueErrors ==
    pc = "returned" =>
        /\ out.status \in {"ok", "error"}
        /\ out.status = "error" <=> out.exc = "ValueError"
        /\ out.status = "ok" <=> out.exc = ""
        /\ (FetchFails \/ FileUnreadable \/ NoContainerNoBody \/ NothingExtracted)
              => out.status = "error"

\* each of the four failures happened in some call and was raised
C22_Witness ==
    /\ pc = "returned" /\ out.exc = "ValueError"
    /\ FetchFails \/ FileUnreadable \/ NoContainerNoBody \/ NothingExtracted

----------------------------------------------------------------------------
(* utils.py, email_sender.py, publication_manager.py: the output stage *)

SentPrefix == "[SENT] "
UnknownSource == <<"Unknown source">>

\* os.path.dirname(path), with the separator that os.path.join puts back
Dirname(path) == SubSeq(path, 1, Len(path) - Len(Basename(path)))

\* "if x" for a string or None
Truthy(x) == x # None /\ x # <<>>

\* format_source_reference(url, file_path)
FormatSourceReference(url, file_path) ==
    IF Truthy(url) THEN url
    ELSE IF Truthy(file_path) THEN <<LocalFilePrefix>> \o Basename(file_path)
    ELSE UnknownSource

\* the directories an ePub file may be written to; "" is no directory given
DefaultEpubDir == "epub_output"
TempDir == "tmp"
NoDir == "None"

\* get_directory_path(config_path, env_var_name, default_dir_name)
GetDirectoryPath(config_path, default_dir_name) ==
    IF config_path = "" THEN default_dir_name ELSE config_path

\* check_email_config(config)
CheckEmailConfig(config) ==
    ~(config.from_email = "" \/ config.password = "" \/ config.kindle_email = "")

\* a plausible slip: the file is renamed whatever its name
RenameHtmlFileAgain(file_path, files, os_ok) ==
    IF ~Truthy(file_path) THEN [path |-> None, files |-> files]
    ELSE LET new_file_path == Dirname(file_path) \o <<SentPrefix>> \o Basename(file_path)
         IN  IF file_path \in files /\ os_ok
             THEN [path |-> new_file_path,
                   files |-> (files \ {file_path}) \cup {new_file_path}]
             ELSE [path |-> file_path, files |-> files]

\* rename_html_file(file_path) on the files of the disk; os.rename raises when
\* the file is not there or the system refuses (os_ok false)
RenameHtmlFile(file_path, files, os_ok) ==
    IF ~Truthy(file_path) THEN [path |-> None, files |-> files]
    ELSE LET directory == Dirname(file_path)
             filename == Basename(file_path)
             new_file_path == directory \o <<SentPrefix>> \o filename
         IN  IF StartsWith(filename, <<SentPrefix>>)
             THEN [path |-> file_path, files |-> files]
             ELSE IF file_path \in files /\ os_ok
                  THEN [path |-> new_file_path,
                        files |-> (files \ {file_path}) \cup {new_file_path}]
                  ELSE [path |-> file_path, files |-> files]

\* a plausible slip: the ePub file is left where it was written
HandleSuccessfulSendKeeping(output_path, source_file, fs, os_ok) ==
    IF Truthy(source_file)
    THEN LET r == RenameHtmlFile(source_file, fs.html, os_ok)
         IN  [path |-> r.path, fs |-> [fs EXCEPT !.html = r.files]]
    ELSE [path |-> None, fs |-> fs]

\* handle_successful_send(output_path, source_file)
HandleSuccessfulSend(output_path, source_file, fs, os_ok) ==
    LET epubs == fs.epubs \ {output_path}
    IN  IF Truthy(source_file)
        THEN LET r == RenameHtmlFile(source_file, fs.html, os_ok)
             IN  [path |-> r.path, fs |-> [html |-> r.files, epubs |-> epubs]]
        ELSE [path |-> None, fs |-> [fs EXCEPT !.epubs = epubs]]

\* the directory create_epub writes to: the parameter, else the configured
\* directory, else the temporary directory
TargetDir(output_dir, config) ==
    IF output_dir \notin {NoDir, ""} THEN output_dir
    ELSE IF config.epub_output_dir # "" THEN config.epub_output_dir
    ELSE TempDir

\* os.path.join(target_dir, f"{clean_title}.epub")
OutputPath(target_dir) == <<target_dir, Slash, "article.epub">>

\* what a call of the output stage gives back: an exception or a pair
\* (success, result), the files it leaves, and the steps it took in order
Outcome(raised, success, result, fs, steps) ==
    [raised |-> raised, success |-> success, result |-> result, fs |-> fs,
     steps |-> steps]

\* kwargs.get(key, default)
KwargsGet(kwargs, key, default) == IF key \in DOMAIN kwargs THEN kwargs[key] ELSE default

NoKwargs == <<>>

\* EPubOutput.process(..., **kwargs); env.epub is whether create_epub writes
\* the file or raises
EPubOutputProcess(config, kwargs, fs, env) ==
    LET epub_output_dir == GetDirectoryPath(config.epub_output_dir, DefaultEpubDir)
        output_dir == KwargsGet(kwargs, "output_dir", epub_output_dir)
        output_path == OutputPath(TargetDir(output_dir, config))
    IN  IF env.epub = "raises" THEN Outcome(TRUE, FALSE, None, fs, <<"create_epub">>)
        ELSE Outcome(FALSE, TRUE, output_path,
                     [fs EXCEPT !.epubs = @ \cup {output_path}], <<"create_epub">>)

\* send_email(config, subject, body, attachment_path): the port is converted
\* and the attachment read before the try; the SMTP session stands in it
SendEmail(config, attachment_path, fs, env) ==
    IF config.smtp_port # "587" \/ attachment_path \notin fs.epubs
    THEN [raised |-> TRUE, success |-> FALSE, steps |-> <<"send_email">>]
    ELSE [raised |-> FALSE, success |-> env.smtp = "sent",
          steps |-> <<"send_email", "smtplib.SMTP">>]

\* KindleOutput.process(title, content, source_reference, source_file, author)
KindleOutputProcess(config, source_file, fs, env) ==
    LET checked == <<"check_email_config">>
    IN  IF ~CheckEmailConfig(config)
        THEN Outcome(FALSE, FALSE, None, fs,
                     Append(checked, "Email configuration incomplete"))
        ELSE LET e == EPubOutputProcess(config, NoKwargs, fs, env)
                 s == SendEmail(config, e.result, e.fs, env)
                 steps == checked \o e.steps \o s.steps
             IN  IF e.raised THEN Outcome(TRUE, FALSE, None, e.fs, checked \o e.steps)
                 ELSE IF s.raised THEN Outcome(TRUE, FALSE, None, e.fs, steps)
                 ELSE IF s.success
                 THEN LET h == HandleSuccessfulSend(e.result, source_file, e.fs,
                                                    env.os_ok)
                      IN  Outcome(FALSE, TRUE, h.path, h.fs,
                                  Append(steps, "handle_successful_send"))
                 ELSE Outcome(FALSE, FALSE, e.result, e.fs,
                              Append(steps, "handle_failed_send"))

\* PublicationManager.create_epub(title, content, source_reference,
\* custom_output_dir, author): the result is the path alone
PublicationManagerCreateEpub(config, custom_output_dir, fs, env) ==
    EPubOutputProcess(config, [output_dir |-> custom_output_dir], fs, env)

\* PublicationManager.send_to_kindle
SendToKindle(config, source_file, fs, env) == KindleOutputProcess(config, source_file, fs, env)

----------------------------------------------------------------------------
(* SpecOutput: calls of PublicationManager.create_epub and send_to_kindle  *)
(* on the files of the disk                                                *)

MaxCalls == 3

Config(from_email, password, kindle_email, epub_output_dir, smtp_port) ==
    [from_email |-> from_email, password |-> password, kindle_email |-> kindle_email,
     epub_output_dir |-> epub_output_dir, smtp_port |-> smtp_port]

\* load_config(): what the environment variables may hold
Configs ==
    {Config(f, p, k, "", "587") : f \in {"", "me@x"}, p \in {"", "pw"}, k \in {"", "k@kindle"}}
        \cup {Config("me@x", "pw", "k@kindle", "cfg_dir", "587"),
              Config("me@x", "pw", "k@kindle", "", "abc"),
              Config("", "", "", "cfg_dir", "587")}

\* how the disk and the mail server answer during one call
OutputEnvs == [epub : {"written", "raises"}, smtp : {"sent", "refused"}, os_ok : BOOLEAN]

\* the HTML files on the disk at the start: the articles directory and a file
\* of the working directory
InitialFiles == {HtmlDir \o HtmlFiles[i] : i \in 1..Len(HtmlFiles)} \cup {<<"a", HtmlExt>>}

NoFs == [html |-> {}, epubs |-> {}]
NoOutput ==
    [op |-> "none", source_file |-> None, output_dir |-> NoDir, os_ok |-> TRUE,
     before |-> NoFs, res |-> Outcome(FALSE, FALSE, None, NoFs, <<>>)]

InitOutput ==
    /\ registry = BuiltinRegistry
    /\ handler = NoHandler
    /\ lookup = NoLookup
    /\ pc = "output"
    /\ mode = "none" /\ args = NoArgs /\ current = NoCurrent
    /\ \E c \in Configs : inp = [kind |-> "output", config |-> c]
    /\ out = [fs |-> [html |-> InitialFiles, epubs |-> {}], last |-> NoOutput]
    /\ handed = NotHanded
    /\ fetched = {} /\ attempts = 0

\* one call of PublicationManager.create_epub
CallPublicationManagerCreateEpub(custom_output_dir, env) ==
    /\ pc = "output"
    /\ attempts < MaxCalls
    /\ attempts' = attempts + 1
    /\ \E r \in {PublicationManagerCreateEpub(inp.config, custom_output_dir, out.fs, env)} :
          out' = [fs |-> r.fs,
                  last |-> [op |-> "create_epub", source_file |-> None,
                            output_dir |-> custom_output_dir, os_ok |-> env.os_ok,
                            before |-> out.fs, res |-> r]]
    /\ UNCHANGED <<registry, handler, lookup, mode, pc, args, current, inp, handed,
                   fetched>>

\* one call of PublicationManager.send_to_kindle: for an article of a URL, of
\* a file of the disk, or of the file sent last (the article still loaded)
CallSendToKindle(source_file, env) ==
    /\ pc = "output"
    /\ attempts < MaxCalls
    /\ source_file \in {None, current.file} \cup out.fs.html
    /\ attempts' = attempts + 1
    /\ current' = [current EXCEPT !.file = source_file]
    /\ \E r \in {SendToKindle(inp.config, source_file, out.fs, env)} :
          out' = [fs |-> r.fs,
                  last |-> [op |-> "send_to_kindle", source_file |-> source_file,
                            output_dir |-> NoDir, os_ok |-> env.os_ok,
                            before |-> out.fs, res |-> r]]
    /\ UNCHANGED <<registry, handler, lookup, mode, pc, args, inp, handed, fetched>>

\* every path a source file may have: the files at the start, once or twice
\* prefixed
SourceFiles ==
    InitialFiles
        \cup {Dirname(f) \o <<SentPrefix>> \o Basename(f) : f \in InitialFiles}
        \cup {Dirname(f) \o <<SentPrefix, SentPrefix>> \o Basename(f) : f \in InitialFiles}

NextOutput ==
    \/ \E d \in {NoDir, "", "custom_dir"} : \E env \in OutputEnvs :
          CallPublicationManagerCreateEpub(d, env)
    \/ \E f \in SourceFiles \cup {None} : \E env \in OutputEnvs :
          CallSendToKindle(f, env)

SpecOutput == InitOutput /\ [][NextOutput]_vars

\* the step was taken by the call made last
Took(step) == \E k \in 1..Len(out.last.res.steps) : out.last.res.steps[k] = step

\* C24: with no output directory given and no epub_output_dir configured,
\* the ePub file is written to the default directory 'epub_output', for
\* PublicationManager.create_epub with custom_output_dir = None and for
\* send_to_kindle.
C24_DefaultEpubDirectory ==
    (inp.config.epub_output_dir = "" /\ ~out.last.res.raised) =>
        /\ (out.last.op = "create_epub" /\ out.last.output_dir = NoDir)
              => out.last.res.result = OutputPath(DefaultEpubDir)
        /\ (out.last.op = "send_to_kindle" /\ Took("handle_failed_send"))
              => out.last.res.result = OutputPath(DefaultEpubDir)

\* the order of the steps of KindleOutput.process
StepRank(step) ==
    CASE step = "check_email_config" -> 1
      [] step = "Email configuration incomplete" -> 2
      [] step = "create_epub" -> 2
      [] step = "send_email" -> 3
      [] step = "smtplib.SMTP" -> 4
      [] OTHER -> 5

CredentialsComplete ==
    inp.config.from_email # "" /\ inp.config.password # "" /\ inp.config.kindle_email # ""

\* where an ePub file goes when no directory is passed to EPubOutput.process
KindleEpubPath ==
    OutputPath(IF inp.config.epub_output_dir = "" THEN DefaultEpubDir
               ELSE inp.config.epub_output_dir)

AlreadySent(path) == Basename(path) # <<>> /\ Head(Basename(path)) = SentPrefix
Prefixed(path) == Dirname(path) \o <<SentPrefix>> \o Basename(path)

\* C25: KindleOutput.process goes config check, ePub creation, send,
\* clean-up; with incomplete credentials nothing is created and nothing sent;
\* after a successful send the ePub file is gone and a local source file
\* carries the '[SENT] ' prefix; after a failed send the ePub file is kept,
\* the source file keeps its name and the result is (False, ePub path).
C25_KindleOutputOrder ==
    LET l == out.last
        r == l.res
        n == Len(r.steps)
    IN  l.op = "send_to_kindle" =>
          /\ r.steps[1] = "check_email_config"
          /\ \A i \in 1..n : \A j \in 1..n :
                i < j => StepRank(r.steps[i]) < StepRank(r.steps[j])
          /\ ~CredentialsComplete
                => /\ ~Took("create_epub") /\ ~Took("send_email") /\ ~Took("smtplib.SMTP")
                   /\ r.fs = l.before
                   /\ ~r.raised /\ ~r.success /\ r.result = None
          /\ Took("handle_successful_send")
                => /\ r.success
                   /\ KindleEpubPath \notin r.fs.epubs
                   /\ IF /\ Truthy(l.source_file) /\ l.source_file \in l.before.html
                         /\ ~AlreadySent(l.source_file) /\ l.os_ok
                      THEN /\ r.result = Prefixed(l.source_file)
                           /\ r.fs.html = (l.before.html \ {l.source_file})
                                              \cup {Prefixed(l.source_file)}
                      ELSE r.fs.html = l.before.html
          /\ Took("handle_failed_send")
                => /\ ~r.success
                   /\ r.result = KindleEpubPath
                   /\ KindleEpubPath \in r.fs.epubs
                   /\ r.fs.html = l.before.html

\* a send succeeded for a file of the disk, which was renamed, and the ePub
\* file written for it was removed
C25_Witness ==
    /\ out.last.op = "send_to_kindle"
    /\ Took("handle_successful_send")
    /\ Truthy(out.last.source_file)
    /\ Prefixed(out.last.source_file) \in out.fs.html
    /\ out.last.source_file \notin out.fs.html
    /\ out.fs.epubs = {}

\* the number of '[SENT] ' prefixes a file name starts with
RECURSIVE PrefixCount(_)
PrefixCount(name) ==
    IF name # <<>> /\ Head(name) = SentPrefix THEN 1 + PrefixCount(Tail(name)) ELSE 0

\* C26: after any sequence of sends of local files, re-sending the article
\* still loaded and re-selecting a file already marked as sent included, no
\* file name carries more than one '[SENT] ' prefix; for a file already
\* marked rename_html_file gives the path back unchanged, and when the rename
\* fails it gives the original path back without raising.
C26_SinglePrefix ==
    LET l == out.last
        r == l.res
    IN  /\ \A f \in out.fs.html : PrefixCount(Basename(f)) <= 1
        /\ (l.op = "send_to_kindle" /\ Took("handle_successful_send")
               /\ Truthy(l.source_file))
              => /\ ~r.raised
                 /\ PrefixCount(Basename(r.result)) = 1 \/ r.result = l.source_file
                 /\ (AlreadySent(l.source_file) \/ ~l.os_ok
                        \/ l.source_file \notin l.before.html)
                       => (r.result = l.source_file /\ r.fs.html = l.before.html)

\* a file already marked as sent was selected and sent again
C26_Witness ==
    /\ out.last.op = "send_to_kindle" /\ Took("handle_successful_send")
    /\ AlreadySent(out.last.source_file)
    /\ out.last.source_file \in out.fs.html
    /\ out.last.res.result = out.last.source_file

----------------------------------------------------------------------------
(* SpecSession: the program of kindle_sender.py with its output stage.     *)
(* In Spec no article ever reaches the output stage (see C2). Here the     *)
(* article manager is taken as its callers use it: a call raises, or gives *)
(* the three values of the core extraction.                                *)

\* ArticleManager.extract_from_url / extract_from_file_path as the callers
\* unpack it: title, content, author
HandedOver(o) ==
    IF o.status = "ok"
    THEN [status |-> "ok", title |-> o.title, body |-> o.body, author |-> o.author]
    ELSE Raised

\* a plausible slip: the title of the article outlives the reset
ResetArticleKeepingTitle(c) == [NoCurrent EXCEPT !.title = c.title]

\* InteractiveMode.reset_article
ResetArticle(c) == NoCurrent

\* InteractiveMode.get_source_reference
GetSourceReference(c) == FormatSourceReference(c.url, c.file)

\* a plausible slip: --no-send looked at before --debug-extraction
CliOutputNoSendFirst(a) ==
    IF a.no_send THEN "epub" ELSE IF a.debug_extraction THEN "print" ELSE "kindle"

\* the output a command-line run goes to once the article is extracted
CliOutput(a) ==
    IF a.debug_extraction THEN "print" ELSE IF a.no_send THEN "epub" ELSE "kindle"

\* PrintOutput.process
PrintOutputProcess(fs) == Outcome(FALSE, TRUE, None, fs, <<"print_article">>)

\* the output of the given name applied to the loaded article
RunOutput(name, config, output_dir, source_file, fs, env) ==
    CASE name = "print" -> PrintOutputProcess(fs)
      [] name = "epub" -> PublicationManagerCreateEpub(config, output_dir, fs, env)
      [] OTHER -> SendToKindle(config, source_file, fs, env)

SessionCommandLines ==
    [url : {SubstackUrl, ExampleUrl}, file : {None}, no_send : BOOLEAN,
     debug_extraction : BOOLEAN, output_dir : {NoDir, "custom_dir"}]
        \cup [url : {None}, file : {HtmlDir \o HtmlFiles[1], <<"a", HtmlExt>>},
              no_send : BOOLEAN, debug_extraction : BOOLEAN,
              output_dir : {NoDir, "custom_dir"}]
        \cup {[url |-> None, file |-> None, no_send |-> FALSE,
               debug_extraction |-> FALSE, output_dir |-> NoDir]}

\* the page is served or the connection fails; the file is read or not
SessionEnvs == {PlainEnv, [PlainEnv EXCEPT !.r2 = "conn"], Unreadable}
SessionDocs == {GoodDoc, EmptyDoc}

\* the disk and the mail server do as asked, or one of them does not
CalmOutputEnv == [epub |-> "written", smtp |-> "sent", os_ok |-> TRUE]
SessionOutputEnvs ==
    {CalmOutputEnv, [CalmOutputEnv EXCEPT !.epub = "raises"],
     [CalmOutputEnv EXCEPT !.smtp = "refused"], [CalmOutputEnv EXCEPT !.os_ok = FALSE]}

NoSelection == [kind |-> "none", ref |-> None]

InitSession ==
    /\ registry = BuiltinRegistry
    /\ handler = NoHandler
    /\ lookup = NoLookup
    /\ pc = "main"
    /\ mode = "none" /\ args = NoArgs /\ current = NoCurrent
    /\ \E c \in Configs : inp = [kind |-> "session", config |-> c]
    /\ out = [fs |-> [html |-> InitialFiles, epubs |-> {}], last |-> NoOutput,
              steps |-> <<>>, selected |-> NoSelection]
    /\ handed = NotHanded
    /\ fetched = {} /\ attempts = 0

\* the steps of an extraction as the run sees them
FetchSteps(kind, o) == IF kind = "url" /\ o.events # <<>> THEN <<"fetch">> ELSE <<>>

\* CommandLineMode.run with _extract_article: the whole run, to the exit
CommandLineModeRun(doc, env, oenv) ==
    /\ pc = "cli_run"
    /\ LET kind == IF Truthy(args.url) THEN "url" ELSE "file"
           ref == IF kind = "url" THEN args.url ELSE args.file
           source_reference == IF kind = "url" THEN args.url
                               ELSE FormatSourceReference(None, args.file)
           source_file == IF kind = "url" THEN None ELSE args.file
       IN  \E o \in {IF kind = "url" THEN UrlOutcome(registry, ref, doc, env)
                      ELSE FileOutcome(registry, ref, doc, env)} :
             \E h \in {HandedOver(o)} :
               /\ handed' = h
               /\ fetched' = fetched \cup (IF kind = "url" THEN FetchesOf(ref, o) ELSE {})
               /\ IF h.status # "ok"
                  THEN /\ out' = [out EXCEPT !.steps = FetchSteps(kind, o),
                                             !.selected = [kind |-> kind, ref |-> ref]]
                       /\ pc' = "exit1"
                  ELSE \E r \in {RunOutput(CliOutput(args), inp.config, args.output_dir,
                                            source_file, out.fs, oenv)} :
                         /\ out' = [fs |-> r.fs,
                                    last |-> [op |-> CliOutput(args),
                                              source_file |-> source_file,
                                              output_dir |-> args.output_dir,
                                              os_ok |-> oenv.os_ok, before |-> out.fs,
                                              res |-> r],
                                    steps |-> FetchSteps(kind, o) \o r.steps,
                                    selected |-> [kind |-> kind, ref |-> ref]]
                         /\ pc' = IF r.raised THEN "exit1" ELSE "exit0"
    /\ UNCHANGED <<registry, handler, lookup, mode, args, current, inp, attempts>>

\* the rest of a source handler once the reference is stored in current_url
\* or current_file: extract, keep the article, or forget the reference
LoadSelected(kind, ref, doc, env) ==
    \E o \in {IF kind = "url" THEN UrlOutcome(registry, ref, doc, env)
              ELSE FileOutcome(registry, ref, doc, env)} :
      \E h \in {HandedOver(o)} :
        /\ handed' = h
        /\ fetched' = fetched \cup (IF kind = "url" THEN FetchesOf(ref, o) ELSE {})
        /\ out' = [out EXCEPT !.steps = FetchSteps(kind, o),
                              !.selected = [kind |-> kind, ref |-> ref]]
        /\ IF h.status = "ok"
           THEN /\ current' = [current EXCEPT ![kind] = ref, !.title = h.title,
                                              !.content = h.body, !.author = h.author]
                /\ pc' = "main_menu"
           ELSE /\ current' = [current EXCEPT ![kind] = None]
                /\ pc' = "choose_source"

\* InteractiveMode._handle_url_source
SessionHandleUrlSource(typed, doc, env) ==
    /\ pc = "url_source"
    /\ \E url \in {Strip(typed)} :
         IF url = <<>>
         THEN /\ current' = [current EXCEPT !.url = url]
              /\ pc' = "choose_source"
              /\ out' = [out EXCEPT !.steps = <<>>]
              /\ UNCHANGED <<handed, fetched>>
         ELSE \E pv \in {RunPreValidation(registry, url)} :
                IF ~pv.allowed /\ pv.message # "None"
                THEN /\ current' = [current EXCEPT !.url = url]
                     /\ pc' = "choose_source"
                     /\ out' = [out EXCEPT !.steps = <<"Domain Warning">>,
                                           !.selected = [kind |-> "url", ref |-> url]]
                     /\ UNCHANGED <<handed, fetched>>
                ELSE LoadSelected("url", url, doc, env)
    /\ UNCHANGED <<registry, handler, lookup, mode, args, inp, attempts>>

\* the files get_available_files lists: the HTML files of the articles
\* directory
AvailableFiles(fs) == {f \in fs.html : Dirname(f) = HtmlDir /\ EndsWith(f, <<HtmlExt>>)}

\* InteractiveMode._handle_file_source; the choice is a listed file or "Go back"
SessionHandleFileSource(choice, doc, env) ==
    /\ pc = "file_source"
    /\ choice \in AvailableFiles(out.fs) \cup {None}
    /\ IF choice = None
       THEN /\ pc' = "choose_source"
            /\ out' = [out EXCEPT !.steps = <<>>]
            /\ UNCHANGED <<current, handed, fetched>>
       ELSE LoadSelected("file", choice, doc, env)
    /\ UNCHANGED <<registry, handler, lookup, mode, args, inp, attempts>>

\* InteractiveMode._process_main_menu followed by the test of run():
\* an output, "Work on a new article" or "Exit"; typed is the answer to the
\* directory prompt, answer the one to "Press Enter to continue"
ProcessMainMenu(choice, typed, answer, oenv) ==
    /\ pc = "main_menu"
    /\ IF choice = "new"
       THEN /\ current' = ResetArticle(current)
            /\ out' = [out EXCEPT !.steps = <<"reset_article">>]
            /\ pc' = IF current'.title = None THEN "choose_source" ELSE "main_menu"
       ELSE IF choice = "exit"
       THEN /\ pc' = "exit0"
            /\ out' = [out EXCEPT !.steps = <<>>]
            /\ UNCHANGED current
       ELSE \E r \in {RunOutput(choice, inp.config, IF typed # "" THEN typed ELSE NoDir,
                                 current.file, out.fs, oenv)} :
              /\ out' = [fs |-> r.fs,
                         last |-> [op |-> choice, source_file |-> current.file,
                                   output_dir |-> IF typed # "" THEN typed ELSE NoDir,
                                   os_ok |-> oenv.os_ok, before |-> out.fs, res |-> r],
                         steps |-> IF r.raised THEN r.steps
                                   ELSE IF choice = "kindle"
                                   THEN Append(r.steps, "Article sent to Kindle!")
                                   ELSE IF choice = "epub"
                                   THEN Append(r.steps, "ePub created successfully!")
                                   ELSE r.steps,
                         selected |-> out.selected]
              /\ pc' = IF r.raised THEN "exit1"
                       ELSE IF answer = "exit" THEN "exit0"
                       ELSE "main_menu"
              /\ UNCHANGED current
    /\ UNCHANGED <<registry, handler, lookup, mode, args, inp, handed, fetched,
                   attempts>>

NextSession ==
    \/ \E a \in SessionCommandLines : Main(a)
    \/ \E doc \in SessionDocs : \E env \in SessionEnvs : \E oenv \in SessionOutputEnvs :
          CommandLineModeRun(doc, env, oenv)
    \/ \E choice \in {"url", "html_file", "exit"} : ChooseArticleSource(choice)
    \/ \E typed \in {SubstackUrl, ExampleUrl, <<>>, <<" ">>} : \E doc \in SessionDocs :
          \E env \in SessionEnvs : SessionHandleUrlSource(typed, doc, env)
    \/ \E choice \in SourceFiles \cup {None} : \E doc \in SessionDocs :
          \E env \in SessionEnvs : SessionHandleFileSource(choice, doc, env)
    \/ \E choice \in {"new", "exit"} : ProcessMainMenu(choice, "", "", CalmOutputEnv)
    \/ \E answer \in {"", "exit"} : ProcessMainMenu("print", "", answer, CalmOutputEnv)
    \/ \E typed \in {"", "custom_dir"} : \E answer \in {"", "exit"} :
          \E oenv \in {CalmOutputEnv, [CalmOutputEnv EXCEPT !.epub = "raises"]} :
             ProcessMainMenu("epub", typed, answer, oenv)
    \/ \E answer \in {"", "exit"} : \E oenv \in SessionOutputEnvs :
          ProcessMainMenu("kindle", "", answer, oenv)

SpecSession == InitSession /\ [][NextSession]_vars

----------------------------------------------------------------------------
(* Properties of the session *)

NetworkSteps == {"fetch", "smtplib.SMTP"}
ConfigFailure == "Email configuration incomplete"

\* load_config() prints a warning at start-up when a credential is missing,
\* whatever the output of the run, and the run goes on
StartupWarning == ~CheckEmailConfig(inp.config)

\* C21: when the output of a command-line run is sending to Kindle and the
\* email credentials are incomplete, the configuration failure comes before
\* any network activity of the run: no HTML fetch and no SMTP connection is
\* made before it.
C21_ConfigFailureBeforeNetwork ==
    (/\ mode = "cli" /\ pc \in {"exit0", "exit1"}
     /\ CliOutput(args) = "kindle" /\ ~CredentialsComplete)
        => \A j \in 1..Len(out.steps) :
              out.steps[j] \in NetworkSteps
                 => \E i \in 1..(j - 1) : out.steps[i] = ConfigFailure

\* the step was taken by the handler that ran last
InRun(step) == \E k \in 1..Len(out.steps) : out.steps[k] = step

CliRunEnded == mode = "cli" /\ pc \in {"exit0", "exit1"}

SelectedReference ==
    IF out.selected.kind = "url" THEN out.selected.ref
    ELSE <<LocalFilePrefix>> \o Basename(out.selected.ref)

\* C27: in interactive mode at most one of current_url and current_file is
\* set in every state, refused pre-validations, failed extractions and
\* 'go back' choices included, so that get_source_reference names the source
\* selected last.
C27_OneSourceAtATime ==
    mode = "interactive" =>
        /\ ~(Truthy(current.url) /\ Truthy(current.file))
        /\ pc = "main_menu" => GetSourceReference(current) = SelectedReference

Delivered == out.last.op = "kindle" /\ Took("handle_successful_send")

============================================================================
